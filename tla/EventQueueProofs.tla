-------------------------- MODULE EventQueueProofs --------------------------
(* An event queue, for any events: the count of events and the array of          *)
(* descriptors, the two lists through next_ready, what a scan finds, select and  *)
(* the pipe, and the dispatcher that the queue implements.                       *)
EXTENDS EventQueue, SequenceFacts

-----------------------------------------------------------------------------
(* The inductive invariant *)

N == Cardinality(FdEvents)

(* The object lists each of its events once. *)
WatchingSound == IsInjective(watching) /\ ToSet(watching) = {e \in ObjectEvents : ev[e].evq}

FlagsSound == /\ \A e \in Events : ev[e].evq => ev[e].known /\ ~ev[e].delete
              /\ at = "callback" => list # Nil

(* What the scan has not reached yet is what evq_wait saw before select, unless  *)
(* another thread deletes a descriptor meanwhile: events still known, each once,  *)
(* none of which a deletion has moved further back.                               *)
Unscanned(k) == /\ events[k] \in FdEvents /\ ev[events[k]].evq /\ ev[events[k]].index <= k
                /\ \A j \in 1..sel.npolls : j >= i /\ events[j] = events[k] => j = k
ScanInStep == /\ InSelect => sel.npolls <= npolls
              /\ \A k \in 1..sel.npolls : k >= i => Unscanned(k)
ScanSound == /\ sel.npolls <= N
             /\ InSelect => i <= 1
             /\ at \in {"found", "poll"} => i >= 1
             /\ meddled = {} /\ (InSelect \/ at = "poll") => ScanInStep

IInv == TypeOK /\ CountsEvents /\ PollsAreKnown /\ WatchingSound /\ FlagsSound /\ ScanSound

LEMMA FiniteEvents == /\ IsFiniteSet(Events) /\ IsFiniteSet(FdEvents) /\ N \in Nat
                      /\ Nil \notin Events /\ Events \cap Ends = {}
<1>1. IsFiniteSet(Events) /\ FdEvents \subseteq Events /\ Nil \notin Events /\ Events \cap Ends = {}
  BY QueueAssumption DEF Events
<1> QED
  BY <1>1, FS_Subset, FS_CardinalityType DEF N

LEMMA FreshIsEvent == Fresh \in Event
BY DEF Fresh, Event

(* An event that is added, that leaves its queue, that gets another index. *)
IsAdded(f, msec, k) == f = [Fresh EXCEPT !.known = TRUE, !.evq = TRUE, !.tq = msec, !.index = k]
IsLeft(f, r) == f = [r EXCEPT !.evq = FALSE, !.tq = "none"]
IsMoved(f, r, k) == f = [r EXCEPT !.index = k]

LEMMA AddedIsEvent ==
  ASSUME NEW k \in Nat, NEW msec \in {"none", "finite", "infinite"}, NEW f, IsAdded(f, msec, k)
  PROVE  f \in Event /\ f.known /\ f.evq /\ ~f.delete /\ f.wants /\ f.index = k
<1>1. f \in Event
  BY DEF IsAdded, Fresh, Event
<1>2. f.known /\ f.evq /\ ~f.delete /\ f.wants /\ f.index = k
  BY DEF IsAdded, Fresh, Event
<1> QED
  BY <1>1, <1>2

LEMMA LeftIsEvent ==
  ASSUME NEW r \in Event, NEW f, IsLeft(f, r)
  PROVE  /\ f \in Event /\ ~f.evq
         /\ f.delete = r.delete /\ f.known = r.known /\ f.wants = r.wants
         /\ f.index = r.index /\ f.active = r.active
BY DEF IsLeft, Event

LEMMA MovedIsEvent ==
  ASSUME NEW r \in Event, NEW k \in Nat, NEW f, IsMoved(f, r, k)
  PROVE  /\ f \in Event /\ f.index = k
         /\ f.evq = r.evq /\ f.delete = r.delete /\ f.known = r.known
         /\ f.wants = r.wants /\ f.active = r.active
BY DEF IsMoved, Event

LEMMA InitHolds == Init => IInv
<1> SUFFICES ASSUME Init PROVE IInv
  OBVIOUS
<1>1. TypeOK
  <2>1. ev \in [Events -> Event]
    BY FreshIsEvent DEF Init
  <2>2. sel \in [npolls : Nat, readset : SUBSET FdEvents, max_fd : Int]
    BY DEF Init, Unused
  <2>3. max_fd \in Int /\ watching \in Seq(ObjectEvents)
    BY QueueAssumption DEF Init
  <2>4. /\ npolls \in 0..Cardinality(FdEvents)
        /\ events \in [1..Cardinality(FdEvents) -> FdEvents \cup {Nil}]
    BY FiniteEvents DEF Init, N
  <2> QED
    BY <2>1, <2>2, <2>3, <2>4 DEF Init, TypeOK, Places, Ends
<1>2. CountsEvents
  <2>1. {e \in Events : ev[e].evq} = {}
    BY DEF Init, Fresh
  <2> QED
    BY <2>1, FS_EmptySet DEF Init, CountsEvents
<1>3. PollsAreKnown
  BY QueueAssumption DEF Init, PollsAreKnown, Fresh, Events
<1>4. WatchingSound
  BY DEF Init, WatchingSound, Fresh, Events, ToSet, IsInjective
<1>5. FlagsSound /\ ScanSound
  BY FiniteEvents DEF Init, FlagsSound, ScanSound, Fresh, Unused, InSelect
<1> QED
  BY <1>1, <1>2, <1>3, <1>4, <1>5 DEF IInv

(* The scan goes on as it was, or not at all. *)
ScanGoesOn == /\ sel' = sel \/ sel' = Unused
              /\ InSelect' => InSelect /\ i' <= 1
              /\ at' \in {"found", "poll"} => i' >= 1
              /\ (InSelect \/ at = "poll")' => (InSelect \/ at = "poll") /\ sel' = sel /\ i' >= i
                                              /\ meddled' = meddled

(* Steps that change no event as far as the counts and the arrays go. *)
LEMMA QuietKeeps ==
  ASSUME IInv, TypeOK', UNCHANGED <<nevents, watching, events, npolls, readset, max_fd>>,
         \A e \in Events : /\ ev'[e].evq = ev[e].evq
                           /\ ev[e].evq => /\ ev'[e].index = ev[e].index
                                           /\ ev'[e].wants = ev[e].wants
                                           /\ ev'[e].known /\ ~ev'[e].delete,
         at' = "callback" => list' # Nil,
         ScanGoesOn
  PROVE  IInv'
<1>0. FdEvents \subseteq Events /\ ObjectEvents \subseteq Events
  BY DEF Events
<1>1. CountsEvents'
  BY DEF IInv, CountsEvents
<1>2. PollsAreKnown'
  <2>1. \A k \in 1..npolls : events[k] \in FdEvents /\ ev[events[k]].evq
    BY DEF IInv, PollsAreKnown
  <2> QED
    BY <1>0, <2>1 DEF IInv, PollsAreKnown
<1>3. WatchingSound'
  BY <1>0 DEF IInv, WatchingSound
<1>4. FlagsSound'
  BY DEF IInv, FlagsSound
<1>5. ScanSound'
  <2>1. sel.npolls <= N /\ sel'.npolls <= N
    BY FiniteEvents DEF IInv, ScanSound, ScanGoesOn, Unused
  <2>2. /\ InSelect' => i' <= 1
        /\ at' \in {"found", "poll"} => i' >= 1
    BY DEF ScanGoesOn
  <2>3. ASSUME (meddled = {} /\ (InSelect \/ at = "poll"))' PROVE ScanInStep'
    <3>1. /\ sel' = sel /\ i' >= i /\ (InSelect \/ at = "poll") /\ meddled = {}
          /\ i \in Nat /\ i' \in Nat /\ sel.npolls \in Nat
      BY <2>3 DEF ScanGoesOn, IInv, TypeOK
    <3>2. ScanInStep
      BY <3>1 DEF IInv, ScanSound
    <3>3. InSelect' => sel'.npolls <= npolls'
      <4>1. InSelect' => InSelect
        BY DEF ScanGoesOn
      <4> QED
        BY <3>1, <3>2, <4>1 DEF ScanInStep
    <3>4. ASSUME NEW k \in 1..sel'.npolls, k >= i' PROVE Unscanned(k)'
      <4>1. k \in 1..sel.npolls /\ k >= i
        BY <3>1, <3>4
      <4>2. Unscanned(k)
        BY <3>2, <4>1 DEF ScanInStep
      <4>3. \A j \in 1..sel.npolls : j >= i' => j >= i
        BY <3>1
      <4> QED
        BY <3>1, <4>2, <4>3, <1>0 DEF Unscanned
    <3> QED
      BY <3>3, <3>4 DEF ScanInStep
  <2> QED
    BY <2>1, <2>2, <2>3 DEF ScanSound, N
<1> QED
  BY <1>1, <1>2, <1>3, <1>4, <1>5 DEF IInv

(* An array that holds the known descriptors has room for one that is not known. *)
LEMMA RoomInArray ==
  ASSUME IInv, NEW e \in FdEvents, ~ev[e].evq
  PROVE  npolls < N
<1> DEFINE K == {f \in FdEvents : ev[f].evq}
           h == [k \in 1..npolls |-> events[k]]
<1>1. npolls \in Nat
  BY FiniteEvents DEF IInv, TypeOK, N
<1>2. h \in Injection(1..npolls, K)
  BY DEF IInv, PollsAreKnown, Injection, IsInjective
<1>3. IsFiniteSet(K) /\ Cardinality(K) <= N - 1
  <2>1. IsFiniteSet(FdEvents \ {e}) /\ Cardinality(FdEvents \ {e}) = N - 1
    BY FiniteEvents, FS_RemoveElement DEF N
  <2>2. K \in SUBSET (FdEvents \ {e})
    OBVIOUS
  <2> QED
    BY <2>1, <2>2, FS_Subset
<1>4. Cardinality(1..npolls) = npolls
  BY <1>1, FS_Interval
<1>5. Cardinality(1..npolls) <= Cardinality(K)
  BY <1>2, <1>3, FS_Injection
<1>6. Cardinality(K) \in Nat
  BY <1>3, FS_CardinalityType
<1> QED
  BY <1>1, <1>3, <1>4, <1>5, <1>6, FiniteEvents

-----------------------------------------------------------------------------
(* Calls *)

LEMMA AddKeeps ==
  ASSUME IInv, NEW e \in Events, NEW msec \in {"none", "finite", "infinite"}, Add(e, msec)
  PROVE  IInv'
<1> DEFINE f == [Fresh EXCEPT !.known = TRUE, !.evq = TRUE, !.tq = msec,
                              !.index = IF e \in FdEvents THEN npolls + 1 ELSE 0]
<1>0. FdEvents \subseteq Events /\ ObjectEvents \subseteq Events /\ npolls \in Nat /\ npolls <= N
  BY FiniteEvents DEF Events, IInv, TypeOK, N
<1>1. /\ VmFree /\ ~ev[e].known /\ ev' = [ev EXCEPT ![e] = f] /\ nevents' = nevents + 1
      /\ watching' = IF e \in ObjectEvents THEN <<e>> \o watching ELSE watching
      /\ UNCHANGED <<stop, intr, object_events, pipe, at, list, sel, hit, i, left, meddled, until, due,
                     abandoned>>
  BY DEF Add, scan
<1>2. ~ev[e].evq
  BY <1>1 DEF IInv, FlagsSound
<1>3. /\ f \in Event /\ f.known /\ f.evq /\ ~f.delete /\ f.wants
      /\ e \in FdEvents => f.index = npolls + 1
  <2> DEFINE k == IF e \in FdEvents THEN npolls + 1 ELSE 0
  <2>1. k \in Nat /\ (e \in FdEvents => k = npolls + 1)
    BY <1>0
  <2>2. IsAdded(f, msec, k)
    BY DEF IsAdded
  <2>3. msec \in {"none", "finite", "infinite"}
    OBVIOUS
  <2> HIDE DEF f, k
  <2>4. f \in Event /\ f.known /\ f.evq /\ ~f.delete /\ f.wants /\ f.index = k
    BY <2>1, <2>2, <2>3, AddedIsEvent
  <2> QED
    BY <2>1, <2>4
<1>4. ev'[e] = f /\ (\A x \in Events \ {e} : ev'[x] = ev[x]) /\ ev' \in [Events -> Event]
  BY <1>1, <1>3 DEF IInv, TypeOK
<1> HIDE DEF f
<1>5. CountsEvents'
  <2>1. {x \in Events : ev'[x].evq} = {x \in Events : ev[x].evq} \cup {e}
    BY <1>3, <1>4
  <2>2. IsFiniteSet({x \in Events : ev[x].evq})
    BY FiniteEvents, FS_Subset
  <2> QED
    BY <1>1, <1>2, <2>1, <2>2, FS_AddElement DEF IInv, CountsEvents
<1>6. WatchingSound' /\ watching' \in Seq(ObjectEvents)
  <2>1. CASE e \in ObjectEvents
    <3>1. e \notin ToSet(watching)
      BY <1>2 DEF IInv, WatchingSound
    <3> QED
      BY <2>1, <3>1, <1>0, <1>1, <1>3, <1>4, Prepended DEF IInv, TypeOK, WatchingSound
  <2>2. CASE e \notin ObjectEvents
    BY <2>2, <1>0, <1>1, <1>4 DEF IInv, TypeOK, WatchingSound
  <2> QED
    BY <2>1, <2>2
<1>7. FlagsSound'
  BY <1>1, <1>3, <1>4 DEF IInv, FlagsSound
<1>8. CASE e \in FdEvents
  <2>1. /\ npolls' = npolls + 1 /\ events' = [events EXCEPT ![npolls + 1] = e]
        /\ readset' = readset \cup {e}
        /\ max_fd' = IF max_fd # -1 /\ max_fd < Fd[e] THEN Fd[e] ELSE max_fd
    BY <1>8 DEF Add, AddFd
  <2>2. npolls + 1 \in 1..N
    BY <1>0, <1>2, <1>8, RoomInArray, FiniteEvents
  <2>3. /\ events'[npolls + 1] = e /\ \A k \in 1..npolls : events'[k] = events[k]
        /\ events' \in [1..N -> FdEvents \cup {Nil}]
    BY <2>1, <2>2, <1>0, <1>8 DEF IInv, TypeOK, N
  <2>4. Fd[e] \in Int /\ max_fd \in Int /\ \A x \in FdEvents : Fd[x] \in Int
    BY <1>8, QueueAssumption DEF IInv, TypeOK
  <2>5. TypeOK'
    <3>1. npolls' \in 0..N /\ readset' \subseteq FdEvents /\ max_fd' \in Int
      BY <1>8, <2>1, <2>2, <2>4, <1>0 DEF IInv, TypeOK
    <3>2. nevents' \in Nat
      BY <1>1 DEF IInv, TypeOK
    <3> QED
      BY <1>1, <1>4, <1>6, <2>3, <3>1, <3>2 DEF IInv, TypeOK, N
  <2>6. \A k \in 1..npolls : events[k] \in FdEvents /\ ev[events[k]].evq /\ events[k] # e
    BY <1>2 DEF IInv, PollsAreKnown
  <2>7. PollsAreKnown'
    <3>1. 1..npolls' = 1..npolls \cup {npolls + 1}
      BY <2>1, <1>0
    <3>2. {events'[k] : k \in 1..npolls'} = {events[k] : k \in 1..npolls} \cup {e}
      BY <2>3, <3>1
    <3>3. {x \in FdEvents : ev'[x].evq} = {x \in FdEvents : ev[x].evq} \cup {e}
      BY <1>0, <1>3, <1>4, <1>8
    <3>4. \A k \in 1..npolls' : ev'[events'[k]].index = k
      BY <2>3, <2>6, <3>1, <1>0, <1>3, <1>4, <1>8 DEF IInv, PollsAreKnown
    <3>5. readset' = {x \in FdEvents : ev'[x].evq /\ ev'[x].wants}
      BY <2>1, <1>0, <1>3, <1>4, <1>2, <1>8 DEF IInv, PollsAreKnown
    <3>6. max_fd' = -1 \/ \A x \in FdEvents : ev'[x].evq => Fd[x] <= max_fd'
      <4>1. \A x \in FdEvents : ev'[x].evq => ev[x].evq \/ x = e
        BY <1>0, <1>4
      <4> QED
        BY <2>1, <2>4, <4>1 DEF IInv, PollsAreKnown
    <3> QED
      BY <3>2, <3>3, <3>4, <3>5, <3>6 DEF IInv, PollsAreKnown
  <2>8. ScanSound'
    <3>1. sel'.npolls <= N /\ at # "poll"
      BY <1>1 DEF IInv, ScanSound, VmFree, InSelect
    <3>2. sel.npolls \in Nat
      BY DEF IInv, TypeOK
    <3>3. /\ InSelect' => i' <= 1
          /\ at' \in {"found", "poll"} => i' >= 1
      BY <1>1 DEF IInv, ScanSound, InSelect
    <3>4. ASSUME InSelect, meddled = {} PROVE ScanInStep'
      <4>1. sel.npolls <= npolls /\ ScanInStep
        BY <3>4 DEF IInv, ScanSound, ScanInStep
      <4>2. sel'.npolls <= npolls'
        BY <1>0, <1>1, <2>1, <3>2, <4>1
      <4>3. ASSUME NEW k \in 1..sel.npolls, k >= i PROVE Unscanned(k)'
        <5>1. Unscanned(k) /\ \A j \in 1..sel.npolls : j \in 1..npolls
          BY <3>2, <4>1, <4>3, <1>0 DEF ScanInStep
        <5> QED
          BY <5>1, <2>3, <2>6, <1>0, <1>1, <1>4 DEF Unscanned
      <4> QED
        BY <1>1, <4>2, <4>3 DEF ScanInStep
    <3> QED
      BY <1>1, <3>1, <3>3, <3>4 DEF ScanSound, InSelect, N
  <2> QED
    BY <1>5, <1>6, <1>7, <2>5, <2>7, <2>8 DEF IInv
<1>9. CASE e \notin FdEvents
  <2>1. UNCHANGED <<events, npolls, readset, max_fd>>
    BY <1>9 DEF Add, polling
  <2>2. TypeOK'
    BY <1>1, <1>4, <1>6, <2>1 DEF IInv, TypeOK
  <2>3. \A x \in FdEvents : ev'[x] = ev[x]
    BY <1>0, <1>4, <1>9
  <2>4. \A k \in 1..npolls : events[k] \in FdEvents
    BY DEF IInv, PollsAreKnown
  <2>5. PollsAreKnown'
    BY <2>1, <2>3, <2>4 DEF IInv, PollsAreKnown
  <2>6. ScanSound'
    BY <1>1, <2>1, <2>3 DEF IInv, ScanSound, ScanInStep, InSelect, Unscanned
  <2> QED
    BY <1>5, <1>6, <1>7, <2>2, <2>5, <2>6 DEF IInv
<1> QED
  BY <1>8, <1>9

(* evq_del, by a call or for a one-shot event: what it does to the counts and to *)
(* the array, whatever becomes of the event besides.                             *)
LEMMA evq_delKeeps ==
  ASSUME IInv, NEW e \in FdEvents, ev[e].evq,
         NEW evs \in [Events -> Event], evq_del(e, evs),
         \A x \in Events \ {e} : evs[x] = ev[x],
         watching' = watching
  PROVE  /\ CountsEvents' /\ PollsAreKnown' /\ WatchingSound'
         /\ ev' \in [Events -> Event] /\ ~ev'[e].evq
         /\ ev'[e].delete = evs[e].delete /\ ev'[e].active = evs[e].active
         /\ \A x \in Events \ {e} :
              /\ ev'[x].evq = ev[x].evq /\ ev'[x].known = ev[x].known
              /\ ev'[x].delete = ev[x].delete
         /\ nevents' \in Nat /\ npolls' \in 0..N /\ npolls' = npolls - 1
         /\ events' \in [1..N -> FdEvents \cup {Nil}]
         /\ readset' \subseteq FdEvents /\ max_fd' \in Int
         /\ ev[e].index \in 1..npolls
         /\ \A k \in 1..N : k # ev[e].index => events'[k] = events[k]
         /\ \A x \in FdEvents \ {e} :
              \/ ev'[x].index = ev[x].index
              \/ ev'[x].index = ev[e].index /\ ev[e].index < ev[x].index
<1> DEFINE k == ev[e].index
           moved == events[npolls]
<1>0. /\ FdEvents \subseteq Events /\ ObjectEvents \subseteq Events /\ e \in Events
      /\ npolls \in Nat /\ npolls <= N /\ N \in Nat
      /\ FdEvents \cap ObjectEvents = {}
  BY FiniteEvents, QueueAssumption DEF Events, IInv, TypeOK, N
<1>1. /\ nevents' = nevents - 1 /\ npolls' = npolls - 1 /\ readset' = readset \ {e}
      /\ max_fd' = IF max_fd = Fd[e] THEN -1 ELSE max_fd
      /\ k < npolls => /\ events' = [events EXCEPT ![k] = moved]
                       /\ ev' = [evs EXCEPT ![moved].index = k, ![e].evq = FALSE, ![e].tq = "none"]
      /\ ~(k < npolls) => /\ ev' = [evs EXCEPT ![e].evq = FALSE, ![e].tq = "none"]
                          /\ events' = events
  BY DEF evq_del
<1>2. /\ k \in 1..npolls /\ events[k] = e
      /\ \A j \in 1..npolls : events[j] \in FdEvents /\ ev[events[j]].evq /\ ev[events[j]].index = j
  <2>1. e \in {events[j] : j \in 1..npolls}
    BY DEF IInv, PollsAreKnown
  <2>2. PICK j \in 1..npolls : e = events[j]
    BY <2>1
  <2>3. j = k
    BY <2>2 DEF IInv, PollsAreKnown
  <2> QED
    BY <2>2, <2>3 DEF IInv, PollsAreKnown
<1>3. npolls \in 1..npolls /\ npolls \in 1..N /\ k \in 1..N
  BY <1>0, <1>2
<1>4. moved \in FdEvents /\ ev[moved].index = npolls /\ (k < npolls => moved # e)
  BY <1>2, <1>3
<1>5. /\ events' \in [1..N -> FdEvents \cup {Nil}]
      /\ \A j \in 1..N : j # k => events'[j] = events[j]
      /\ k < npolls => events'[k] = moved
  BY <1>1, <1>3, <1>4 DEF IInv, TypeOK, N
<1> HIDE DEF moved, k
<1>6. /\ ev' \in [Events -> Event] /\ ~ev'[e].evq
      /\ ev'[e].delete = evs[e].delete /\ ev'[e].active = evs[e].active
      /\ \A x \in Events \ {e} :
           /\ ev'[x].evq = ev[x].evq /\ ev'[x].known = ev[x].known
           /\ ev'[x].delete = ev[x].delete /\ ev'[x].wants = ev[x].wants
           /\ ev'[x].index = IF k < npolls /\ x = moved THEN k ELSE ev[x].index
  <2>1. CASE k < npolls
    <3>1. k \in Nat /\ moved \in Events /\ moved # e
      BY <2>1, <1>0, <1>3, <1>4
    <3>2. ev' = [evs EXCEPT ![moved].index = k, ![e].evq = FALSE, ![e].tq = "none"]
      BY <2>1, <1>1 DEF k, moved
    <3>3. /\ ev'[e] = [evs[e] EXCEPT !.evq = FALSE, !.tq = "none"]
          /\ ev'[moved] = [evs[moved] EXCEPT !.index = k]
          /\ \A x \in Events \ {e, moved} : ev'[x] = evs[x]
          /\ ev' \in [Events -> {ev'[x] : x \in Events}]
      BY <3>1, <3>2, <1>0
    <3>4. \A x \in Events : ev'[x] \in Event
      <4>1. ev'[e] \in Event
        <5>1. evs[e] \in Event /\ IsLeft(ev'[e], evs[e])
          BY <3>3, <1>0 DEF IsLeft
        <5> QED
          BY <5>1, LeftIsEvent
      <4>2. ev'[moved] \in Event
        <5>1. evs[moved] \in Event /\ IsMoved(ev'[moved], evs[moved], k)
          BY <3>1, <3>3 DEF IsMoved
        <5> QED
          BY <3>1, <5>1, MovedIsEvent
      <4> QED
        BY <4>1, <4>2, <3>3
    <3>5. ev' \in [Events -> Event]
      BY <3>3, <3>4
    <3>6. ~ev'[e].evq /\ ev'[e].delete = evs[e].delete /\ ev'[e].active = evs[e].active
      <4>1. evs[e] \in Event /\ IsLeft(ev'[e], evs[e])
        BY <3>3, <1>0 DEF IsLeft
      <4> QED
        BY <4>1, LeftIsEvent
    <3>7. /\ ev'[moved].evq = ev[moved].evq /\ ev'[moved].known = ev[moved].known
          /\ ev'[moved].delete = ev[moved].delete /\ ev'[moved].wants = ev[moved].wants
          /\ ev'[moved].index = k
      <4>1. evs[moved] = ev[moved] /\ evs[moved] \in Event
        BY <3>1
      <4>2. IsMoved(ev'[moved], evs[moved], k)
        BY <3>3 DEF IsMoved
      <4> QED
        BY <4>1, <4>2, <3>1, MovedIsEvent
    <3>8. \A x \in Events \ {e, moved} : ev'[x] = ev[x]
      BY <3>3
    <3> QED
      BY <2>1, <3>5, <3>6, <3>7, <3>8
  <2>2. CASE ~(k < npolls)
    <3>1. /\ ev'[e] = [evs[e] EXCEPT !.evq = FALSE, !.tq = "none"]
          /\ \A x \in Events \ {e} : ev'[x] = evs[x]
          /\ ev' \in [Events -> {ev'[x] : x \in Events}]
      BY <2>2, <1>0, <1>1 DEF k
    <3>2. \A x \in Events : ev'[x] \in Event
      <4>1. ev'[e] \in Event
        <5>1. evs[e] \in Event /\ IsLeft(ev'[e], evs[e])
          BY <3>1, <1>0 DEF IsLeft
        <5> QED
          BY <5>1, LeftIsEvent
      <4> QED
        BY <4>1, <3>1
    <3>3. ev' \in [Events -> Event]
      BY <3>1, <3>2
    <3>4. ~ev'[e].evq /\ ev'[e].delete = evs[e].delete /\ ev'[e].active = evs[e].active
      <4>1. evs[e] \in Event /\ IsLeft(ev'[e], evs[e])
        BY <3>1, <1>0 DEF IsLeft
      <4> QED
        BY <4>1, LeftIsEvent
    <3> QED
      BY <2>2, <3>1, <3>3, <3>4
  <2> QED
    BY <2>1, <2>2
<1>7. nevents' \in Nat /\ CountsEvents'
  <2>1. {x \in Events : ev'[x].evq} = {x \in Events : ev[x].evq} \ {e}
    BY <1>0, <1>6
  <2>2. IsFiniteSet({x \in Events : ev[x].evq})
    BY FiniteEvents, FS_Subset
  <2>3. Cardinality({x \in Events : ev'[x].evq}) = nevents - 1
    BY <1>0, <2>1, <2>2, FS_RemoveElement DEF IInv, CountsEvents
  <2>4. Cardinality({x \in Events : ev'[x].evq}) \in Nat
    BY <2>1, <2>2, FS_RemoveElement, FS_CardinalityType
  <2> QED
    BY <1>1, <2>3, <2>4 DEF CountsEvents
<1>8. WatchingSound'
  BY <1>0, <1>6 DEF IInv, WatchingSound
<1>9. /\ npolls' \in 0..N /\ readset' \subseteq FdEvents /\ max_fd' \in Int
  BY <1>0, <1>1, <1>3 DEF IInv, TypeOK
<1>10. PollsAreKnown'
  <2>1. \A j \in 1..npolls - 1 : /\ events'[j] \in FdEvents \ {e} /\ ev'[events'[j]].evq
                                 /\ ev'[events'[j]].index = j
    <3> TAKE j \in 1..npolls - 1
    <3>0. j \in 1..npolls /\ j \in 1..N /\ j # npolls
      BY <1>0
    <3>1. CASE j = k
      <4>1. k < npolls /\ events'[j] = moved /\ moved # e /\ moved \in FdEvents
        BY <3>0, <3>1, <1>0, <1>4, <1>5
      <4>2. ev[moved].evq
        BY <1>2, <1>3 DEF moved
      <4> QED
        BY <4>1, <4>2, <3>1, <1>0, <1>6
    <3>2. CASE j # k
      <4>1. events'[j] = events[j] /\ events[j] \in FdEvents /\ ev[events[j]].index = j
            /\ ev[events[j]].evq
        BY <3>0, <3>2, <1>2, <1>5
      <4>2. events[j] # e /\ events[j] # moved
        BY <3>0, <3>2, <4>1, <1>4 DEF k
      <4> QED
        BY <4>1, <4>2, <1>0, <1>6
    <3> QED
      BY <3>1, <3>2
  <2>2. ASSUME NEW x \in FdEvents, ev'[x].evq PROVE \E j \in 1..npolls - 1 : events'[j] = x
    <3>1. x # e /\ ev[x].evq
      BY <2>2, <1>0, <1>6
    <3>2. PICK j \in 1..npolls : events[j] = x
      BY <3>1 DEF IInv, PollsAreKnown
    <3>3. j # k /\ j \in 1..N
      BY <3>1, <3>2, <1>0, <1>2
    <3>4. CASE j < npolls
      BY <3>2, <3>3, <3>4, <1>0, <1>5
    <3>5. CASE ~(j < npolls)
      <4>1. j = npolls /\ x = moved /\ k < npolls
        BY <3>2, <3>3, <3>5, <1>0, <1>2 DEF moved
      <4> QED
        BY <4>1, <1>0, <1>2, <1>5
    <3> QED
      BY <3>4, <3>5
  <2>3. {events'[j] : j \in 1..npolls'} = {x \in FdEvents : ev'[x].evq}
    BY <1>1, <2>1, <2>2
  <2>4. readset' = {x \in FdEvents : ev'[x].evq /\ ev'[x].wants}
    BY <1>0, <1>1, <1>6 DEF IInv, PollsAreKnown
  <2>5. max_fd' = -1 \/ \A x \in FdEvents : ev'[x].evq => Fd[x] <= max_fd'
    <3>1. \A x \in FdEvents : ev'[x].evq => ev[x].evq
      BY <1>0, <1>6
    <3> QED
      BY <1>1, <3>1 DEF IInv, PollsAreKnown
  <2> QED
    BY <1>1, <2>1, <2>3, <2>4, <2>5 DEF PollsAreKnown
<1>11. \A x \in FdEvents \ {e} :
         ev'[x].index = ev[x].index \/ (ev'[x].index = k /\ k < ev[x].index)
  BY <1>0, <1>4, <1>6
<1> QED
  BY <1>0, <1>1, <1>2, <1>5, <1>6, <1>7, <1>8, <1>9, <1>10, <1>11 DEF k

LEMMA Bases == ASSUME IInv PROVE
  /\ FdEvents \subseteq Events /\ ObjectEvents \subseteq Events /\ FdEvents \cap ObjectEvents = {}
  /\ npolls \in 0..N /\ N \in Nat /\ ev \in [Events -> Event]
BY FiniteEvents, QueueAssumption DEF Events, IInv, TypeOK, N

LEMMA Unscanning == ASSUME IInv, UNCHANGED <<sel, i, at, meddled>> PROVE ScanGoesOn
BY DEF IInv, TypeOK, ScanSound, ScanGoesOn, InSelect

LEMMA LeavesIsEvent ==
  ASSUME IInv, NEW e \in Events
  PROVE  /\ Leaves(e) \in [Events -> Event] /\ \A x \in Events \ {e} : Leaves(e)[x] = ev[x]
         /\ ~ev[e].evq => ~Leaves(e)[e].evq
<1>1. ev \in [Events -> Event]
  BY Bases
<1>2. CASE ev[e].active
  <2> DEFINE r == [ev[e] EXCEPT !.delete = TRUE]
  <2>1. Leaves(e) = [ev EXCEPT ![e] = r]
    BY <1>2 DEF Leaves
  <2>2. r \in Event /\ r.evq = ev[e].evq
    BY <1>1 DEF Event
  <2> HIDE DEF r
  <2> QED
    BY <2>1, <2>2, <1>1
<1>3. CASE ~ev[e].active
  <2>1. Leaves(e) = [ev EXCEPT ![e] = Fresh] /\ ~Fresh.evq
    BY <1>3 DEF Leaves, Fresh
  <2> QED
    BY <2>1, <1>1, FreshIsEvent
<1> QED
  BY <1>2, <1>3

(* Events that are not descriptors leave: one by a call, all of an object with it. *)
LEMMA GoneKeeps ==
  ASSUME IInv, VmFree, NEW G \in SUBSET (Events \ FdEvents), \A x \in G : ev[x].evq /\ ~ev'[x].evq,
         ev' \in [Events -> Event], \A x \in Events \ G : ev'[x] = ev[x],
         nevents' = nevents - Cardinality(G),
         watching' \in Seq(ObjectEvents), IsInjective(watching'),
         ToSet(watching') = ToSet(watching) \ G,
         UNCHANGED <<events, npolls, readset, max_fd, at, list, sel, i, meddled>>
  PROVE  /\ CountsEvents' /\ PollsAreKnown' /\ WatchingSound' /\ FlagsSound' /\ ScanSound'
         /\ nevents' \in Nat
<1>0. \A x \in FdEvents : x \in Events /\ ev'[x] = ev[x]
  BY Bases
<1>1. CountsEvents' /\ nevents' \in Nat
  <2> DEFINE K == {x \in Events : ev[x].evq}
  <2>1. {x \in Events : ev'[x].evq} = K \ G
    OBVIOUS
  <2>2. IsFiniteSet(K) /\ K \cap G = G
    BY FiniteEvents, FS_Subset
  <2> HIDE DEF K
  <2>3. /\ IsFiniteSet(K \ G)
        /\ Cardinality(K \ G) = Cardinality(K) - Cardinality(G)
    <3>1. /\ IsFiniteSet(K \ G)
          /\ Cardinality(K \ G) = Cardinality(K) - Cardinality(K \cap G)
      BY <2>2, FS_Difference
    <3> QED
      BY <2>2, <3>1
  <2>4. Cardinality(K \ G) \in Nat
    BY <2>3, FS_CardinalityType
  <2> QED
    BY <2>1, <2>3, <2>4 DEF K, IInv, CountsEvents
<1>2. PollsAreKnown'
  <2>1. \A k \in 1..npolls : events[k] \in FdEvents
    BY DEF IInv, PollsAreKnown
  <2> QED
    BY <1>0, <2>1 DEF IInv, PollsAreKnown
<1>3. WatchingSound'
  BY Bases DEF IInv, WatchingSound
<1>4. FlagsSound'
  BY DEF IInv, FlagsSound
<1>5. ScanSound'
  BY <1>0 DEF IInv, ScanSound, ScanInStep, InSelect, Unscanned
<1> QED
  BY <1>1, <1>2, <1>3, <1>4, <1>5

LEMMA DelKeeps == ASSUME IInv, NEW e \in Events, Del(e) PROVE IInv'
<1>1. /\ VmFree /\ ev[e].known
      /\ meddled' = meddled \cup (IF InSelect /\ ev[e].evq THEN {e} \cap FdEvents ELSE {})
      /\ watching' = IF ev[e].evq THEN Unlinked(e) ELSE watching
      /\ UNCHANGED <<stop, intr, object_events, pipe, at, list, sel, hit, i, left, due, abandoned>>
  BY DEF Del, scan
<1>2. /\ Leaves(e) \in [Events -> Event] /\ \A x \in Events \ {e} : Leaves(e)[x] = ev[x]
      /\ ~ev[e].evq => ~Leaves(e)[e].evq
  BY LeavesIsEvent
<1>3. until' = until \/ until' = "stale" => until' \in Events \cup Ends
  BY DEF IInv, TypeOK, Ends
<1>4. CASE ~ev[e].evq
  <2>1. /\ ev' = Leaves(e)
        /\ UNCHANGED <<nevents, events, npolls, readset, max_fd, until, watching, meddled>>
    BY <1>1, <1>4 DEF Del, polling
  <2>2. TypeOK'
    BY <1>1, <1>2, <2>1 DEF IInv, TypeOK
  <2>3. ScanGoesOn
    BY <1>1, <2>1, Unscanning
  <2>4. \A x \in Events : /\ ev'[x].evq = ev[x].evq
                          /\ ev[x].evq => ev'[x] = ev[x] /\ ev[x].known /\ ~ev[x].delete
    <3>1. ev[e].evq = FALSE /\ ev'[e].evq = FALSE
      BY <1>2, <1>4, <2>1, Bases DEF Event
    <3> QED
      BY <3>1, <1>2, <2>1 DEF IInv, FlagsSound
  <2>5. at' = "callback" => list' # Nil
    BY <1>1 DEF IInv, FlagsSound
  <2> QED
    BY <2>1, <2>2, <2>3, <2>4, <2>5, QuietKeeps
<1>5. CASE ev[e].evq /\ e \in FdEvents
  <2>1. evq_del(e, Leaves(e))
    BY <1>5 DEF Del
  <2>2. watching' = watching
    <3>1. e \notin ToSet(watching)
      BY <1>5, Bases DEF IInv, WatchingSound
    <3> QED
      BY <3>1, <1>1 DEF Unlinked
  <2>3. /\ CountsEvents' /\ PollsAreKnown' /\ WatchingSound'
        /\ ev' \in [Events -> Event] /\ ~ev'[e].evq
        /\ \A x \in Events \ {e} :
             /\ ev'[x].evq = ev[x].evq /\ ev'[x].known = ev[x].known
             /\ ev'[x].delete = ev[x].delete
        /\ nevents' \in Nat /\ npolls' \in 0..N
        /\ events' \in [1..N -> FdEvents \cup {Nil}]
        /\ readset' \subseteq FdEvents /\ max_fd' \in Int
    BY <1>2, <1>5, <2>1, <2>2, evq_delKeeps
  <2>4. until' \in Events \cup Ends
    BY <2>1, <1>3 DEF evq_del, Forget
  <2>5. TypeOK'
    <3>1. meddled' \subseteq FdEvents
      BY <1>1 DEF IInv, TypeOK
    <3> QED
      BY <1>1, <2>2, <2>3, <2>4, <3>1 DEF IInv, TypeOK, N
  <2>6. FlagsSound'
    BY <1>1, <2>3 DEF IInv, FlagsSound
  <2>7. at # "poll" /\ (InSelect => meddled' # {})
    BY <1>1, <1>5 DEF VmFree, InSelect
  <2>8. ScanSound'
    BY <1>1, <2>7 DEF IInv, ScanSound, InSelect, N
  <2> QED
    BY <2>3, <2>5, <2>6, <2>8 DEF IInv
<1>6. CASE ev[e].evq /\ e \notin FdEvents
  <2>1. /\ nevents' = nevents - 1 /\ until' = IF until = e THEN "stale" ELSE until
        /\ ev' = [Leaves(e) EXCEPT ![e].evq = FALSE, ![e].tq = "none"]
        /\ UNCHANGED <<events, npolls, readset, max_fd, meddled>>
    BY <1>1, <1>6 DEF Del, evq_del_timer, Forget, polling
  <2>2. ev' \in [Events -> Event] /\ ~ev'[e].evq /\ \A x \in Events \ {e} : ev'[x] = ev[x]
    <3> DEFINE r == [Leaves(e)[e] EXCEPT !.evq = FALSE, !.tq = "none"]
    <3>1. r \in Event /\ ~r.evq
      <4>1. Leaves(e)[e] \in Event /\ IsLeft(r, Leaves(e)[e])
        BY <1>2 DEF IsLeft
      <4> HIDE DEF r
      <4> QED
        BY <4>1, LeftIsEvent
    <3>2. ev' = [Leaves(e) EXCEPT ![e] = r]
      BY <2>1, <1>2
    <3> HIDE DEF r
    <3> QED
      BY <3>1, <3>2, <1>2
  <2>3. /\ watching' \in Seq(ObjectEvents) /\ IsInjective(watching')
        /\ ToSet(watching') = ToSet(watching) \ {e}
    <3>1. watching \in Seq(ObjectEvents) /\ IsInjective(watching)
      BY DEF IInv, TypeOK, WatchingSound
    <3>2. CASE e \in ToSet(watching)
      <4>1. \E k \in DOMAIN watching : watching[k] = e
        BY <3>2 DEF ToSet
      <4>2. PICK k \in DOMAIN watching : watching[k] = e /\ watching' = RemoveAt(watching, k)
        BY <4>1, <3>2, <1>1, <1>6 DEF Unlinked
      <4>3. k \in 1 .. Len(watching)
        BY <3>1, LenProperties
      <4> QED
        BY <4>2, <4>3, <3>1, RemovedAt
    <3>3. CASE e \notin ToSet(watching)
      <4>1. watching' = watching
        BY <3>3, <1>1, <1>6 DEF Unlinked
      <4> QED
        BY <4>1, <3>1, <3>3
    <3> QED
      BY <3>2, <3>3
  <2>4. Cardinality({e}) = 1
    BY FS_Singleton
  <2>5. /\ CountsEvents' /\ PollsAreKnown' /\ WatchingSound' /\ FlagsSound' /\ ScanSound'
        /\ nevents' \in Nat
    BY <1>1, <1>6, <2>1, <2>2, <2>3, <2>4, GoneKeeps
  <2>6. TypeOK'
    BY <1>1, <1>3, <2>1, <2>2, <2>3, <2>5 DEF IInv, TypeOK
  <2> QED
    BY <2>5, <2>6 DEF IInv
<1> QED
  BY <1>4, <1>5, <1>6

LEMMA ChangeKeeps == ASSUME IInv, NEW e \in Events, Change(e) PROVE IInv'
<1> DEFINE r == [ev[e] EXCEPT !.wants = ~ev[e].wants]
<1>0. e \in FdEvents /\ e \in Events
  BY QueueAssumption DEF Change
<1>1. /\ ev[e].evq /\ ev' = [ev EXCEPT ![e] = r]
      /\ UNCHANGED <<nevents, stop, intr, object_events, watching, events, npolls, pipe, at, list,
                     sel, hit, i, left, meddled, until, due, abandoned>>
      /\ ev[e].wants => readset' = readset \ {e} /\ max_fd' = IF max_fd = Fd[e] THEN -1 ELSE max_fd
      /\ ~ev[e].wants => /\ readset' = readset \cup {e}
                         /\ max_fd' = IF max_fd # -1 /\ max_fd < Fd[e] THEN Fd[e] ELSE max_fd
  BY DEF Change, queue, scan
<1>2. /\ r \in Event /\ r.evq = ev[e].evq /\ r.known = ev[e].known /\ r.delete = ev[e].delete
      /\ r.index = ev[e].index /\ r.wants = ~ev[e].wants
  <2>1. ASSUME NEW q \in Event, NEW f, f = [q EXCEPT !.wants = ~q.wants]
        PROVE  /\ f \in Event /\ f.evq = q.evq /\ f.known = q.known /\ f.delete = q.delete
               /\ f.index = q.index /\ f.wants = ~q.wants
    BY <2>1 DEF Event
  <2>2. ev[e] \in Event
    BY Bases
  <2>3. r = [ev[e] EXCEPT !.wants = ~ev[e].wants]
    OBVIOUS
  <2> HIDE DEF r
  <2> QED
    BY <2>1, <2>2, <2>3
<1> HIDE DEF r
<1>3. /\ ev' \in [Events -> Event] /\ ev'[e].wants = ~ev[e].wants
      /\ \A x \in Events : /\ ev'[x].evq = ev[x].evq /\ ev'[x].known = ev[x].known
                            /\ ev'[x].delete = ev[x].delete /\ ev'[x].index = ev[x].index
      /\ \A x \in Events \ {e} : ev'[x] = ev[x]
  <2>1. /\ ev' \in [Events -> Event] /\ ev'[e] = r
        /\ \A x \in Events \ {e} : ev'[x] = ev[x]
    BY <1>1, <1>2, Bases
  <2> QED
    BY <1>2, <2>1
<1>4. Fd[e] \in Int /\ max_fd \in Int /\ \A x \in FdEvents : Fd[x] \in Int
  BY <1>0, QueueAssumption DEF IInv, TypeOK
<1>5. TypeOK'
  <2>1. readset' \subseteq FdEvents /\ max_fd' \in Int
    BY <1>0, <1>1, <1>4 DEF IInv, TypeOK
  <2> QED
    BY <1>1, <1>3, <2>1 DEF IInv, TypeOK
<1>6. CountsEvents' /\ WatchingSound' /\ FlagsSound'
  <2>1. {x \in Events : ev'[x].evq} = {x \in Events : ev[x].evq}
    BY <1>3
  <2>2. CountsEvents'
    BY <1>1, <2>1 DEF IInv, CountsEvents
  <2>3. {x \in ObjectEvents : ev'[x].evq} = {x \in ObjectEvents : ev[x].evq}
    BY <1>3 DEF Events
  <2>4. WatchingSound'
    BY <1>1, <2>3 DEF IInv, WatchingSound
  <2>5. FlagsSound'
    BY <1>1, <1>3 DEF IInv, FlagsSound
  <2> QED
    BY <2>2, <2>4, <2>5
<1>7. PollsAreKnown'
  <2>1. \A k \in 1..npolls : events[k] \in FdEvents
    BY DEF IInv, PollsAreKnown
  <2>2. readset' = {x \in FdEvents : ev'[x].evq /\ ev'[x].wants}
    <3>1. readset = {x \in FdEvents : ev[x].evq /\ ev[x].wants}
      BY DEF IInv, PollsAreKnown
    <3>2. \A x \in FdEvents : ev'[x].evq = ev[x].evq /\ (x # e => ev'[x].wants = ev[x].wants)
      BY <1>3 DEF Events
    <3>3. CASE ev[e].wants
      <4>1. readset' = readset \ {e} /\ ~ev'[e].wants
        BY <1>1, <1>3, <3>3
      <4> QED
        BY <3>1, <3>2, <4>1
    <3>4. CASE ~ev[e].wants
      <4>1. readset' = readset \cup {e} /\ ev'[e].wants /\ ev'[e].evq
        BY <1>0, <1>1, <1>3, <3>4
      <4> QED
        BY <1>0, <3>1, <3>2, <4>1
    <3> QED
      BY <3>3, <3>4
  <2>3. max_fd' = -1 \/ \A x \in FdEvents : ev'[x].evq => Fd[x] <= max_fd'
    <3>1. \A x \in FdEvents : ev'[x].evq = ev[x].evq
      BY <1>3 DEF Events
    <3>2. \A x \in FdEvents : ev[x].evq /\ max_fd # -1 => Fd[x] <= max_fd
      BY DEF IInv, PollsAreKnown
    <3> QED
      BY <1>0, <1>1, <1>4, <3>1, <3>2
  <2> QED
    BY <1>1, <1>3, <2>1, <2>2, <2>3, Bases DEF IInv, PollsAreKnown
<1>8. ScanSound'
  BY <1>1, <1>3, Bases DEF IInv, ScanSound, ScanInStep, InSelect, Unscanned
<1> QED
  BY <1>5, <1>6, <1>7, <1>8 DEF IInv

(* Steps that leave the events alone. *)
LEMMA StillKeeps ==
  ASSUME IInv, TypeOK', UNCHANGED <<ev, nevents, watching, events, npolls, readset, max_fd>>,
         at' = "callback" => list' # Nil, ScanGoesOn
  PROVE  IInv'
BY QuietKeeps DEF IInv, FlagsSound

LEMMA SetTimeoutKeeps ==
  ASSUME IInv, NEW e \in Events, NEW msec \in {"none", "finite", "infinite"}, SetTimeout(e, msec)
  PROVE  IInv'
<1> DEFINE r == [ev[e] EXCEPT !.tq = msec]
<1>1. /\ ev' = [ev EXCEPT ![e] = r] /\ until' = IF until = e THEN "stale" ELSE until
      /\ UNCHANGED <<nevents, stop, intr, object_events, watching, events, npolls, readset, max_fd,
                     pipe, at, list, sel, hit, i, left, meddled, due, abandoned>>
  BY DEF SetTimeout, Forget, queue, polling, scan
<1>2. /\ r \in Event /\ r.evq = ev[e].evq /\ r.known = ev[e].known /\ r.delete = ev[e].delete
      /\ r.index = ev[e].index /\ r.wants = ev[e].wants
  BY Bases DEF Event
<1> HIDE DEF r
<1>3. /\ ev' \in [Events -> Event]
      /\ \A x \in Events : /\ ev'[x].evq = ev[x].evq /\ ev'[x].known = ev[x].known
                            /\ ev'[x].delete = ev[x].delete /\ ev'[x].index = ev[x].index
                            /\ ev'[x].wants = ev[x].wants
  BY <1>1, <1>2, Bases
<1>4. TypeOK'
  BY <1>1, <1>3 DEF IInv, TypeOK, Ends
<1>5. at' = "callback" => list' # Nil
  BY <1>1 DEF IInv, FlagsSound
<1> QED
  BY <1>1, <1>3, <1>4, <1>5, Unscanning, QuietKeeps DEF IInv, FlagsSound

LEMMA FlagCallsKeep == ASSUME IInv, Interrupt \/ Stop \/ LoopBegins PROVE IInv'
<1>1. UNCHANGED <<ev, nevents, watching, events, npolls, readset, max_fd, list, sel, i, meddled>>
  BY DEF Interrupt, Stop, LoopBegins, polling, scan
<1>2. TypeOK'
  BY DEF Interrupt, Stop, LoopBegins, IInv, TypeOK, polling, scan, Places
<1>3. at' = at \/ at' = "test"
  BY DEF Interrupt, Stop, LoopBegins
<1>4. (at' = "callback" => list' # Nil) /\ ScanGoesOn
  BY <1>1, <1>3, Unscanning DEF IInv, FlagsSound, ScanGoesOn, InSelect
<1> QED
  BY <1>1, <1>2, <1>4, StillKeeps

LEMMA TriggerHangsKeeps == ASSUME IInv, TriggerHangs PROVE IInv'
<1>1. TypeOK' /\ ScanGoesOn /\ at' # "callback"
  BY DEF TriggerHangs, IInv, TypeOK, queue, polling, scan, Places, ScanGoesOn, InSelect
<1> QED
  BY <1>1, StillKeeps DEF TriggerHangs, queue, polling

-----------------------------------------------------------------------------
(* Events that are triggered *)

LEMMA PushedIsEvent ==
  ASSUME IInv
  PROVE  /\ Pushed(ev) \in [Events -> Event]
         /\ \A x \in Events : /\ Pushed(ev)[x].evq = ev[x].evq
                              /\ Pushed(ev)[x].known = ev[x].known
                              /\ Pushed(ev)[x].delete = ev[x].delete
                              /\ Pushed(ev)[x].index = ev[x].index
                              /\ Pushed(ev)[x].wants = ev[x].wants
<1> DEFINE P(x) == Pushed(ev)[x]
<1>1. \A x \in Events : /\ P(x) \in Event
                        /\ P(x).evq = ev[x].evq /\ P(x).known = ev[x].known
                        /\ P(x).delete = ev[x].delete
                        /\ P(x).index = ev[x].index /\ P(x).wants = ev[x].wants
  <2> TAKE x \in Events
  <2> DEFINE ks == {k \in DOMAIN watching : watching[k] = x}
             k == CHOOSE k \in ks : TRUE
             n == IF k = 1 THEN object_events ELSE watching[k - 1]
             r == [ev[x] EXCEPT !.active = TRUE, !.next = n]
  <2>1. P(x) = IF ks = {} THEN ev[x] ELSE r
    BY DEF Pushed
  <2>2. ks # {} => n \in Events \cup {Nil}
    <3> SUFFICES ASSUME ks # {} PROVE n \in Events \cup {Nil}
      OBVIOUS
    <3>1. k \in DOMAIN watching /\ watching \in Seq(ObjectEvents)
      BY DEF IInv, TypeOK
    <3>2. k \in 1..Len(watching) /\ Len(watching) \in Nat
      BY <3>1, LenProperties
    <3> HIDE DEF ks, k
    <3>3. k # 1 => k - 1 \in 1..Len(watching)
      BY <3>2
    <3>4. k # 1 => watching[k - 1] \in ObjectEvents
      BY <3>1, <3>3, ElementOfSeq
    <3> QED
      BY <3>4, Bases DEF IInv, TypeOK
  <2>3. ev[x] \in Event
    BY Bases
  <2> HIDE DEF n, ks, P
  <2>4. ks # {} => /\ r \in Event
                   /\ r.evq = ev[x].evq /\ r.known = ev[x].known /\ r.delete = ev[x].delete
                   /\ r.index = ev[x].index /\ r.wants = ev[x].wants
    BY <2>2, <2>3 DEF Event
  <2> QED
    BY <2>1, <2>3, <2>4
<1>2. DOMAIN Pushed(ev) = Events /\ Pushed(ev) = [x \in Events |-> Pushed(ev)[x]]
  BY DEF Pushed
<1> QED
  BY <1>1, <1>2

LEMMA LastWatching == ASSUME IInv, CanTrigger PROVE watching[Len(watching)] \in Events
<1>1. watching \in Seq(ObjectEvents) /\ watching # <<>>
  BY DEF IInv, TypeOK, CanTrigger
<1>2. Len(watching) \in 1..Len(watching)
  BY <1>1, EmptySeq, LenProperties
<1> QED
  BY <1>1, <1>2, ElementOfSeq, Bases

LEMMA TriggerKeeps == ASSUME IInv, Trigger PROVE IInv'
<1>1. /\ CanTrigger /\ ev' = Pushed(ev) /\ object_events' = watching[Len(watching)]
      /\ until' = IF until \in ToSet(watching) THEN "stale" ELSE until
      /\ pipe' = TRUE
      /\ UNCHANGED <<nevents, stop, intr, watching, events, npolls, readset, max_fd, at, list,
                     sel, hit, i, left, meddled, due, abandoned>>
  BY DEF Trigger, polling, scan
<1>2. TypeOK'
  BY <1>1, PushedIsEvent, LastWatching DEF IInv, TypeOK, Ends
<1>3. at' = "callback" => list' # Nil
  BY <1>1 DEF IInv, FlagsSound
<1> QED
  BY <1>1, <1>2, <1>3, PushedIsEvent, Unscanning, QuietKeeps DEF IInv, FlagsSound

LEMMA TriggerEndKeeps == ASSUME IInv, TriggerEnd PROVE IInv'
<1> DEFINE G == ToSet(watching)
<1>1. /\ CanTrigger /\ VmFree /\ object_events' = watching[Len(watching)]
      /\ ev' = [x \in Events |-> IF x \in G
                                 THEN [Pushed(ev)[x] EXCEPT !.evq = FALSE, !.tq = "none"] ELSE ev[x]]
      /\ watching' = <<>> /\ nevents' = nevents - Len(watching)
      /\ until' = IF until \in G THEN "stale" ELSE until
      /\ pipe' = TRUE
      /\ UNCHANGED <<stop, intr, events, npolls, readset, max_fd, at, list,
                     sel, hit, i, left, meddled, due, abandoned>>
  BY DEF TriggerEnd, CanTrigger, polling, scan
<1>2. G \in SUBSET (Events \ FdEvents) /\ \A x \in G : ev[x].evq
  BY Bases DEF IInv, WatchingSound
<1>3. Cardinality(G) = Len(watching)
  BY CardinalityOfSeq DEF IInv, TypeOK, WatchingSound
<1> HIDE DEF G
<1>4. /\ ev' \in [Events -> Event] /\ \A x \in G : ~ev'[x].evq
      /\ \A x \in Events \ G : ev'[x] = ev[x]
  <2>1. \A x \in Events : ev'[x] \in Event /\ (x \in G => ~ev'[x].evq)
    <3> TAKE x \in Events
    <3>1. CASE x \in G
      <4>1. Pushed(ev)[x] \in Event /\ IsLeft(ev'[x], Pushed(ev)[x])
        BY <3>1, <1>1, PushedIsEvent DEF IsLeft
      <4> QED
        BY <4>1, LeftIsEvent
    <3>2. CASE x \notin G
      BY <3>2, <1>1, Bases
    <3> QED
      BY <3>1, <3>2
  <2> QED
    BY <1>1, <1>2, <2>1
<1>5. /\ watching' \in Seq(ObjectEvents) /\ IsInjective(watching')
      /\ ToSet(watching') = ToSet(watching) \ G
  <2>1. watching' = <<>> /\ <<>> \in Seq(ObjectEvents)
    BY <1>1, EmptySeq
  <2>2. IsInjective(watching') /\ ToSet(watching') = {}
    BY <2>1, EmptyAsSet
  <2> QED
    BY <2>1, <2>2 DEF G
<1>6. /\ CountsEvents' /\ PollsAreKnown' /\ WatchingSound' /\ FlagsSound' /\ ScanSound'
      /\ nevents' \in Nat
  BY <1>1, <1>2, <1>3, <1>4, <1>5, GoneKeeps
<1>7. TypeOK'
  BY <1>1, <1>4, <1>5, <1>6, LastWatching DEF IInv, TypeOK, Ends
<1> QED
  BY <1>6, <1>7 DEF IInv

-----------------------------------------------------------------------------
(* The loop up to select *)

LEMMA LoopEndsKeeps == ASSUME IInv, LoopEnds PROVE IInv'
<1>1. TypeOK' /\ ScanGoesOn /\ at' # "callback"
  BY DEF LoopEnds, IInv, TypeOK, queue, polling, scan, Places, ScanGoesOn, InSelect
<1> QED
  BY <1>1, StillKeeps DEF LoopEnds, queue, polling

LEMMA HighestIsHighest ==
  ASSUME IInv
  PROVE  /\ Highest \in Int
         /\ Highest = -1 \/ \A x \in FdEvents : ev[x].evq => Fd[x] <= Highest
         /\ Highest = -1 => {x \in FdEvents : ev[x].evq} = {}
<1> DEFINE fds == {Fd[events[k]] : k \in 1..npolls}
<1>1. CASE max_fd # -1
  BY <1>1 DEF Highest, IInv, TypeOK, PollsAreKnown
<1>2. CASE max_fd = -1 /\ fds = {}
  <2>1. Highest = -1
    BY <1>2 DEF Highest
  <2>2. {events[k] : k \in 1..npolls} = {}
    BY <1>2
  <2> QED
    BY <2>1, <2>2 DEF IInv, PollsAreKnown
<1>3. CASE max_fd = -1 /\ fds # {}
  <2>1. Highest = CHOOSE m \in fds : \A f \in fds : f <= m
    BY <1>3 DEF Highest
  <2>2. \A x \in FdEvents : Fd[x] \in Int
    BY QueueAssumption
  <2>3. {events[k] : k \in 1..npolls} = {x \in FdEvents : ev[x].evq}
    BY DEF IInv, PollsAreKnown
  <2>4. fds = {Fd[x] : x \in {y \in FdEvents : ev[y].evq}}
    BY <2>3
  <2>5. IsFiniteSet(fds)
    <3> DEFINE K == {y \in FdEvents : ev[y].evq}
               f == [x \in K |-> Fd[x]]
    <3>1. IsFiniteSet(K)
      BY FiniteEvents, FS_Subset
    <3>2. f \in Surjection(K, fds)
      BY <2>4 DEF Surjection
    <3> HIDE DEF f, K, fds
    <3> QED
      BY <3>1, <3>2, FS_Surjection
  <2>6. fds \in SUBSET Int
    BY <2>2, <2>4
  <2> HIDE DEF fds
  <2>7. \E m \in fds : \A f \in fds : f <= m
    BY <1>3, <2>5, <2>6, MaxExists
  <2>8. Highest \in fds /\ \A f \in fds : f <= Highest
    BY <2>1, <2>7
  <2>9. \A x \in FdEvents : ev[x].evq => Fd[x] <= Highest
    BY <2>4, <2>8
  <2>10. Highest \in Int
    BY <2>6, <2>8
  <2>11. \A x \in FdEvents : Fd[x] >= 0
    BY QueueAssumption
  <2>12. {x \in FdEvents : ev[x].evq} # {}
    BY <1>3, <2>4 DEF fds
  <2>13. Highest # -1
    BY <2>2, <2>9, <2>10, <2>11, <2>12
  <2> QED
    BY <2>9, <2>10, <2>13
<1> QED
  BY <1>1, <1>2, <1>3

LEMMA EnterSelectKeeps == ASSUME IInv, NEW limit \in BOOLEAN, EnterSelect(limit) PROVE IInv'
<1>1. /\ at = "test" /\ at' = "select" /\ max_fd' = Highest
      /\ sel' = [npolls |-> npolls, readset |-> readset, max_fd |-> Highest]
      /\ hit' = {} /\ i' = 0 /\ left' = 0 /\ meddled' = {}
      /\ UNCHANGED <<ev, nevents, stop, intr, object_events, watching, events, npolls, readset, pipe,
                     list, due, abandoned>>
  BY DEF EnterSelect, queue
<1>2. until' \in Events \cup Ends
  BY DEF EnterSelect, Ends, Finite
<1>3. npolls \in Nat /\ sel'.npolls = npolls
  BY <1>1, Bases
<1>4. TypeOK'
  <2>1. sel' \in [npolls : Nat, readset : SUBSET FdEvents, max_fd : Int]
    BY <1>1, <1>3, HighestIsHighest DEF IInv, TypeOK
  <2> QED
    BY <1>1, <1>2, <2>1, HighestIsHighest DEF IInv, TypeOK, Places
<1>5. CountsEvents' /\ WatchingSound' /\ FlagsSound'
  BY <1>1 DEF IInv, CountsEvents, WatchingSound, FlagsSound
<1>6. PollsAreKnown'
  BY <1>1, HighestIsHighest DEF IInv, PollsAreKnown
<1>7. ScanSound'
  <2>1. ASSUME NEW k \in 1..npolls PROVE Unscanned(k)'
    <3>1. /\ events[k] \in FdEvents /\ ev[events[k]].evq /\ ev[events[k]].index = k
          /\ \A j \in 1..npolls : ev[events[j]].index = j
      BY DEF IInv, PollsAreKnown
    <3>2. \A j \in 1..npolls : events[j] = events[k] => j = k
      BY <3>1
    <3> QED
      BY <1>1, <1>3, <3>1, <3>2 DEF Unscanned
  <2> QED
    BY <1>1, <1>3, <2>1, Bases DEF ScanSound, ScanInStep, N, InSelect
<1> QED
  BY <1>4, <1>5, <1>6, <1>7 DEF IInv

LEMMA SelectFindsKeeps == ASSUME IInv, NEW fds \in SUBSET FdEvents, SelectFinds(fds) PROVE IInv'
<1>1. /\ at = "select" /\ at' = "found" /\ left' = Cardinality(fds) /\ i' = 1
      /\ hit' \subseteq FdEvents \cup {"pipe"}
      /\ UNCHANGED <<ev, nevents, stop, intr, object_events, watching, events, npolls, readset,
                     max_fd, pipe, list, sel, meddled, until, due, abandoned>>
  BY DEF SelectFinds, queue, polling
<1>2. left' \in Nat
  BY <1>1, FiniteEvents, FS_Subset, FS_CardinalityType
<1>3. TypeOK'
  BY <1>1, <1>2 DEF IInv, TypeOK, Places
<1>4. ScanGoesOn
  BY <1>1 DEF IInv, ScanSound, ScanGoesOn, InSelect
<1> QED
  BY <1>1, <1>3, <1>4, StillKeeps

LEMMA SelectEndsKeeps == ASSUME IInv, SelectTimesOut \/ SelectIsInterrupted PROVE IInv'
<1>1. /\ at = "select" /\ at' \in {"timedout", "eintr"}
      /\ UNCHANGED <<ev, nevents, stop, intr, object_events, watching, events, npolls, readset,
                     max_fd, pipe, list, sel, hit, i, left, meddled, until, due, abandoned>>
  BY DEF SelectTimesOut, SelectIsInterrupted, queue, polling, scan
<1>2. TypeOK'
  BY <1>1 DEF IInv, TypeOK, Places
<1>3. ScanGoesOn
  BY <1>1 DEF IInv, TypeOK, ScanSound, ScanGoesOn, InSelect
<1> QED
  BY <1>1, <1>2, <1>3, StillKeeps

LEMMA ResumeKeeps == ASSUME IInv, Resume PROVE IInv'
<1>1. /\ at \in {"found", "timedout", "eintr"} /\ at' \in {"poll", "expire", "merge"}
      /\ at' = "poll" => at = "found"
      /\ list' = Nil /\ until' = "never" /\ pipe' \in BOOLEAN
      /\ UNCHANGED <<ev, nevents, stop, intr, object_events, watching, events, npolls, readset,
                     max_fd, sel, hit, i, left, meddled, abandoned>>
  BY DEF Resume, queue, polling, scan
<1>2. due' \subseteq Events
  BY DEF Resume, MayBeDue, Finite
<1>3. TypeOK'
  BY <1>1, <1>2 DEF IInv, TypeOK, Places, Ends
<1>4. ScanGoesOn
  BY <1>1 DEF IInv, TypeOK, ScanSound, ScanGoesOn, InSelect
<1> QED
  BY <1>1, <1>3, <1>4, StillKeeps

-----------------------------------------------------------------------------
(* The scan and the timers that have expired *)

LEMMA ListedIsEvent ==
  ASSUME IInv, NEW e \in Events
  PROVE  /\ Listed(e) \in [Events -> Event] /\ \A x \in Events \ {e} : Listed(e)[x] = ev[x]
         /\ Listed(e)[e].evq = ev[e].evq /\ Listed(e)[e].known = ev[e].known
         /\ Listed(e)[e].delete = ev[e].delete
         /\ Listed(e)[e].index = ev[e].index /\ Listed(e)[e].wants = ev[e].wants
<1> DEFINE r == [ev[e] EXCEPT !.active = TRUE, !.next = list]
<1>1. Listed(e) = [ev EXCEPT ![e] = r]
  BY Bases DEF Listed
<1>2. /\ r \in Event /\ r.evq = ev[e].evq /\ r.known = ev[e].known /\ r.delete = ev[e].delete
      /\ r.index = ev[e].index /\ r.wants = ev[e].wants
  <2>1. ev[e] \in Event /\ list \in Events \cup {Nil}
    BY Bases DEF IInv, TypeOK
  <2> QED
    BY <2>1 DEF Event
<1> HIDE DEF r
<1> QED
  BY <1>1, <1>2, Bases

(* What the scan finds is a descriptor. *)
LEMMA FoundIsKnown ==
  ASSUME IInv, i \in 1..sel.npolls, sel.npolls <= N, events[i] \in hit
  PROVE  events[i] \in FdEvents
<1>1. i \in 1..N /\ events \in [1..N -> FdEvents \cup {Nil}] /\ hit \subseteq FdEvents \cup {"pipe"}
  BY Bases DEF IInv, TypeOK, N
<1>2. Nil \notin FdEvents \cup {"pipe"}
  BY QueueAssumption DEF Events
<1> QED
  BY <1>1, <1>2

LEMMA ScanFindsKeeps == ASSUME IInv, ScanFinds PROVE IInv'
<1> DEFINE e == events[i]
<1>1. /\ at = "poll" /\ i <= sel.npolls /\ left > 0 /\ list' = e /\ abandoned' = abandoned \ {e}
      /\ e \in hit /\ ev[e].evq /\ i' = i + 1 /\ left' = left - 1
      /\ e \in OneShot => evq_del(e, Listed(e))
      /\ e \notin OneShot => ev' = Listed(e) /\ Forget(e) /\ UNCHANGED <<nevents, polling>>
      /\ UNCHANGED <<stop, intr, object_events, watching, pipe, at, sel, hit, meddled, due>>
  BY DEF ScanFinds, Scanning, Found, Astray
<1>2. i \in 1..sel.npolls /\ sel.npolls \in Nat /\ sel.npolls <= N /\ i \in Nat /\ left - 1 \in Nat
  BY <1>1 DEF IInv, TypeOK, ScanSound
<1>3. e \in FdEvents /\ ev[e].evq
  BY <1>1, <1>2, FoundIsKnown
<1> HIDE DEF e
<1>4. e \in Events
  BY <1>3, Bases
<1>5. until' \in Events \cup Ends
  BY <1>1 DEF evq_del, Forget, IInv, TypeOK, Ends
<1>6. CASE e \in OneShot
  <2>1. evq_del(e, Listed(e)) /\ watching' = watching
    BY <1>1, <1>6
  <2>2. /\ CountsEvents' /\ PollsAreKnown' /\ WatchingSound'
        /\ ev' \in [Events -> Event] /\ ~ev'[e].evq
        /\ \A x \in Events \ {e} :
             /\ ev'[x].evq = ev[x].evq /\ ev'[x].known = ev[x].known
             /\ ev'[x].delete = ev[x].delete
        /\ nevents' \in Nat /\ npolls' \in 0..N
        /\ events' \in [1..N -> FdEvents \cup {Nil}]
        /\ readset' \subseteq FdEvents /\ max_fd' \in Int
        /\ ev[e].index \in 1..npolls
        /\ \A k \in 1..N : k # ev[e].index => events'[k] = events[k]
        /\ \A x \in FdEvents \ {e} :
             \/ ev'[x].index = ev[x].index
             \/ ev'[x].index = ev[e].index /\ ev[e].index < ev[x].index
    BY <1>3, <1>4, <2>1, ListedIsEvent, evq_delKeeps
  <2>3. TypeOK'
    BY <1>1, <1>2, <1>4, <1>5, <2>2 DEF IInv, TypeOK, N
  <2>4. FlagsSound'
    BY <1>1, <2>2 DEF IInv, FlagsSound
  <2>5. ScanSound'
    <3>1. ASSUME meddled = {}, NEW k \in 1..sel.npolls, k >= i + 1 PROVE Unscanned(k)'
      <4>0. ScanInStep
        BY <1>1, <3>1 DEF IInv, ScanSound
      <4>1. /\ ev[e].index <= i /\ ev[e].index \in Nat
            /\ \A j \in 1..sel.npolls : j >= i /\ events[j] = e => j = i
        <5>1. ev[e].index \in Nat
          BY <2>2, Bases
        <5>2. Unscanned(i)
          BY <1>2, <4>0 DEF ScanInStep
        <5> QED
          BY <5>1, <5>2 DEF Unscanned, e
      <4>2. k \in 1..N /\ k # ev[e].index /\ k >= i /\ k # i
        BY <1>2, <2>2, <3>1, <4>1, Bases
      <4>3. /\ Unscanned(k) /\ events'[k] = events[k] /\ events[k] # e
        BY <2>2, <3>1, <4>0, <4>1, <4>2 DEF ScanInStep
      <4>4. events[k] \in FdEvents \ {e} /\ events[k] \in Events
        BY <4>3, Bases DEF Unscanned
      <4>5. ev'[events[k]].evq /\ ev'[events[k]].index <= k
        <5>1. ev[events[k]].evq /\ ev[events[k]].index <= k
          BY <4>3 DEF Unscanned
        <5>2. ev[e].index <= k
          BY <1>2, <3>1, <4>1
        <5> QED
          BY <2>2, <4>4, <5>1, <5>2
      <4>6. \A j \in 1..sel.npolls : j >= i + 1 => events'[j] = events[j] /\ j >= i
        <5>1. i \in Nat /\ sel.npolls \in Nat /\ sel.npolls <= N /\ N \in Nat
          BY <1>2, Bases
        <5>2. \A j \in 1..N : j # ev[e].index => events'[j] = events[j]
          BY <2>2
        <5>3. ev[e].index <= i /\ ev[e].index \in Nat
          BY <4>1
        <5>4. ASSUME NEW j \in 1..sel.npolls, j >= i + 1
              PROVE  j \in 1..N /\ j # ev[e].index /\ j >= i
          BY <5>1, <5>3, <5>4
        <5> QED
          BY <5>2, <5>4
      <4> QED
        BY <1>1, <4>3, <4>4, <4>5, <4>6 DEF Unscanned
    <3>2. i' >= 1 /\ at' = "poll"
      BY <1>1, <1>2
    <3>3. meddled' = {} => ScanInStep'
      BY <1>1, <3>1, <3>2 DEF ScanInStep, InSelect
    <3> QED
      BY <1>1, <1>2, <3>2, <3>3 DEF ScanSound, InSelect, N
  <2> QED
    BY <2>2, <2>3, <2>4, <2>5 DEF IInv
<1>7. CASE e \notin OneShot
  <2>1. ev' = Listed(e) /\ UNCHANGED <<nevents, events, npolls, readset, max_fd>>
    BY <1>1, <1>7 DEF polling
  <2>2. TypeOK'
    BY <1>1, <1>2, <1>4, <1>5, <2>1, ListedIsEvent DEF IInv, TypeOK
  <2>3. ScanGoesOn
    BY <1>1, <1>2 DEF ScanGoesOn, InSelect
  <2> QED
    BY <1>1, <1>4, <2>1, <2>2, <2>3, ListedIsEvent, QuietKeeps DEF IInv, FlagsSound
<1> QED
  BY <1>6, <1>7

LEMMA ScanGoesOnKeeps == ASSUME IInv, ScanPasses \/ ScanEnds \/ ScanBreaks PROVE IInv'
<1>1. /\ at = "poll" /\ at' \in {"poll", "merge", "broken"} /\ i' \in {i, i + 1} /\ i \in Nat
      /\ UNCHANGED <<ev, nevents, stop, intr, object_events, watching, events, npolls, readset,
                     max_fd, pipe, list, sel, hit, left, meddled, until, due, abandoned>>
  BY DEF ScanPasses, ScanEnds, ScanBreaks, Scanning, queue, polling, scan, IInv, TypeOK
<1>2. TypeOK'
  BY <1>1 DEF IInv, TypeOK, Places
<1>3. ScanGoesOn
  BY <1>1 DEF IInv, TypeOK, ScanSound, ScanGoesOn, InSelect
<1> QED
  BY <1>1, <1>2, <1>3, StillKeeps

LEMMA ExpireKeeps == ASSUME IInv, NEW e \in Events, Expire(e) PROVE IInv'
<1> DEFINE r == [Listed(e)[e] EXCEPT !.expired = TRUE]
<1>1. /\ at = "expire" /\ list' = e /\ due' = due \ {e} /\ abandoned' = abandoned \ {e}
      /\ ev' = [Listed(e) EXCEPT ![e].expired = TRUE]
      /\ UNCHANGED <<nevents, stop, intr, object_events, watching, events, npolls, readset,
                     max_fd, pipe, at, sel, hit, i, left, meddled, until>>
  BY DEF Expire, queue, polling, scan
<1>2. ev' = [Listed(e) EXCEPT ![e] = r]
  BY <1>1, ListedIsEvent
<1>3. /\ r \in Event /\ r.evq = ev[e].evq /\ r.known = ev[e].known /\ r.delete = ev[e].delete
      /\ r.index = ev[e].index /\ r.wants = ev[e].wants
  <2>1. Listed(e)[e] \in Event
    BY ListedIsEvent
  <2> QED
    BY <2>1, ListedIsEvent DEF Event
<1> HIDE DEF r
<1>4. /\ ev' \in [Events -> Event] /\ ev'[e] = r /\ \A x \in Events \ {e} : ev'[x] = ev[x]
  BY <1>2, <1>3, ListedIsEvent
<1>5. TypeOK'
  BY <1>1, <1>4 DEF IInv, TypeOK
<1> QED
  BY <1>1, <1>3, <1>4, <1>5, Unscanning, QuietKeeps DEF IInv, FlagsSound

LEMMA ExpireEndsKeeps == ASSUME IInv, ExpireEnds \/ LoopTimesOut PROVE IInv'
<1>1. /\ at' \in {"merge", "out"}
      /\ UNCHANGED <<ev, nevents, stop, intr, object_events, watching, events, npolls, readset,
                     max_fd, pipe, list, until, due, abandoned>>
      /\ UNCHANGED <<sel, hit, i, left, meddled>> \/ ScanIsOver
  BY DEF ExpireEnds, LoopTimesOut, queue, polling, scan
<1>2. sel' \in [npolls : Nat, readset : SUBSET FdEvents, max_fd : Int]
      /\ hit' \subseteq FdEvents \cup {"pipe"} /\ i' \in Nat /\ left' \in Nat
      /\ meddled' \subseteq FdEvents /\ (sel' = sel \/ sel' = Unused)
  BY <1>1 DEF IInv, TypeOK, ScanIsOver, Unused
<1>3. TypeOK' /\ ScanGoesOn
  BY <1>1, <1>2 DEF IInv, TypeOK, Places, ScanGoesOn, InSelect
<1> QED
  BY <1>1, <1>3, StillKeeps

-----------------------------------------------------------------------------
(* The list of ready events *)

LEMMA MergeKeeps == ASSUME IInv, Merge PROVE IInv'
<1> DEFINE E == EndsOf(object_events)
           r(x) == [ev[x] EXCEPT !.next = list]
           l == IF object_events = Nil THEN list ELSE object_events
<1>1. /\ at = "merge" /\ list' = l /\ object_events' = Nil
      /\ at' = IF l # Nil THEN "list" ELSE IF intr THEN "interrupt" ELSE "test"
      /\ intr' = (intr /\ l # Nil)
      /\ sel' = Unused /\ hit' = {} /\ i' = 0 /\ left' = 0 /\ meddled' = {}
      /\ ev' = [x \in Events |-> IF x \in E THEN r(x) ELSE ev[x]]
      /\ UNCHANGED <<nevents, stop, watching, events, npolls, readset, max_fd, pipe, until, due,
                     abandoned>>
  BY DEF Merge, AfterMerge, ScanIsOver, polling
<1>2. \A x \in Events : /\ r(x) \in Event
                        /\ r(x).evq = ev[x].evq /\ r(x).known = ev[x].known
                        /\ r(x).delete = ev[x].delete
                        /\ r(x).index = ev[x].index /\ r(x).wants = ev[x].wants
  <2>1. \A x \in Events : ev[x] \in Event /\ list \in Events \cup {Nil}
    BY Bases DEF IInv, TypeOK
  <2> QED
    BY <2>1 DEF Event
<1> HIDE DEF r, E
<1>3. /\ ev' \in [Events -> Event]
      /\ \A x \in Events : /\ ev'[x].evq = ev[x].evq /\ ev'[x].known = ev[x].known
                            /\ ev'[x].delete = ev[x].delete /\ ev'[x].index = ev[x].index
                            /\ ev'[x].wants = ev[x].wants
  <2>1. \A x \in Events : ev'[x] = r(x) \/ ev'[x] = ev[x]
    BY <1>1
  <2>2. \A x \in Events : ev'[x] \in Event
    BY <1>2, <2>1, Bases
  <2>3. ev' \in [Events -> Event]
    BY <1>1, <2>2
  <2> QED
    BY <1>2, <2>1, <2>3
<1>4. TypeOK'
  <2>1. sel' \in [npolls : Nat, readset : SUBSET FdEvents, max_fd : Int]
    BY <1>1 DEF Unused
  <2>2. at' \in Places /\ list' \in Events \cup {Nil} /\ intr' \in BOOLEAN
    BY <1>1 DEF IInv, TypeOK, Places
  <2>3. object_events' \in Events \cup {Nil} /\ hit' \subseteq FdEvents \cup {"pipe"}
        /\ i' \in Nat /\ left' \in Nat /\ meddled' \subseteq FdEvents
    BY <1>1
  <2> QED
    BY <1>1, <1>3, <2>1, <2>2, <2>3 DEF IInv, TypeOK
<1>5. ScanGoesOn /\ at' # "callback"
  BY <1>1 DEF ScanGoesOn, InSelect
<1> QED
  BY <1>1, <1>3, <1>4, <1>5, QuietKeeps DEF IInv, FlagsSound

LEMMA OutOfListKeeps ==
  ASSUME IInv, InterruptReturns \/ ListEnds \/ CallbackFails
  PROVE  IInv'
<1>1. /\ at' \in {"test", "out"} /\ (list' = list \/ list' = Nil)
      /\ abandoned' \subseteq Events
      /\ UNCHANGED <<ev, nevents, stop, intr, object_events, watching, events, npolls, readset,
                     max_fd, pipe, sel, hit, i, left, meddled, until, due>>
  BY DEF InterruptReturns, ListEnds, CallbackFails, queue, polling, scan, Members, IInv, TypeOK
<1>2. TypeOK'
  BY <1>1 DEF IInv, TypeOK, Places
<1>3. ScanGoesOn
  BY <1>1 DEF IInv, TypeOK, ScanGoesOn, InSelect
<1> QED
  BY <1>1, <1>2, <1>3, StillKeeps

LEMMA CallKeeps == ASSUME IInv, Call PROVE IInv'
<1>1. /\ at = "list" /\ list # Nil /\ at' \in {"callback", "crashed"}
      /\ UNCHANGED <<ev, nevents, stop, intr, object_events, watching, events, npolls, readset,
                     max_fd, pipe, list, sel, hit, i, left, meddled, until, due, abandoned>>
  BY DEF Call, queue, polling, scan
<1>2. TypeOK'
  BY <1>1 DEF IInv, TypeOK, Places
<1>3. ScanGoesOn
  BY <1>1 DEF IInv, TypeOK, ScanGoesOn, InSelect
<1> QED
  BY <1>1, <1>2, <1>3, StillKeeps

LEMMA NextInList == ASSUME IInv, list \in Events PROVE ev[list].next \in Events \cup {Nil}
<1>1. ev[list] \in Event
  BY Bases
<1> QED
  BY <1>1 DEF Event

LEMMA PassOverKeeps == ASSUME IInv, PassOver PROVE IInv'
<1>1. /\ at = "list" /\ list # Nil /\ ev[list].delete
      /\ ev' = [ev EXCEPT ![list] = Fresh] /\ list' = ev[list].next
      /\ UNCHANGED <<nevents, stop, intr, object_events, watching, events, npolls, readset,
                     max_fd, pipe, at, sel, hit, i, left, meddled, until, due, abandoned>>
  BY DEF PassOver, queue, polling, scan
<1>2. list \in Events
  BY <1>1 DEF IInv, TypeOK
<1>3. /\ ev' \in [Events -> Event] /\ ev'[list] = Fresh
      /\ \A x \in Events \ {list} : ev'[x] = ev[x]
  BY <1>1, <1>2, FreshIsEvent, Bases
<1>4. ev[list].evq = FALSE /\ Fresh.evq = FALSE
  <2>1. ev[list] \in Event /\ ~ev[list].evq
    BY <1>1, <1>2, Bases DEF IInv, FlagsSound
  <2> QED
    BY <2>1 DEF Fresh, Event
<1>5. TypeOK'
  BY <1>1, <1>2, <1>3, NextInList DEF IInv, TypeOK
<1>6. \A x \in Events : /\ ev'[x].evq = ev[x].evq
                        /\ ev[x].evq => ev'[x] = ev[x] /\ ev[x].known /\ ~ev[x].delete
  BY <1>3, <1>4 DEF IInv, FlagsSound
<1> QED
  BY <1>1, <1>5, <1>6, Unscanning, QuietKeeps

LEMMA CallbackReturnsKeeps == ASSUME IInv, CallbackReturns PROVE IInv'
<1> DEFINE r == [ev[list] EXCEPT !.active = FALSE, !.expired = FALSE, !.next = Nil]
<1>1. /\ at = "callback" /\ at' = "list" /\ list' = ev[list].next
      /\ ev' = [ev EXCEPT ![list] = IF ev[list].evq THEN r ELSE Fresh]
      /\ UNCHANGED <<nevents, stop, intr, object_events, watching, events, npolls, readset,
                     max_fd, pipe, sel, hit, i, left, meddled, until, due, abandoned>>
  <2>1. /\ at = "callback" /\ at' = "list" /\ list' = ev[list].next
        /\ UNCHANGED <<nevents, stop, intr, object_events, watching, events, npolls, readset,
                       max_fd, pipe, sel, hit, i, left, meddled, until, due, abandoned>>
    BY DEF CallbackReturns, queue, polling, scan
  <2>2. list \in Events
    BY <2>1 DEF IInv, TypeOK, FlagsSound
  <2> QED
    BY <2>1, <2>2, Bases DEF CallbackReturns
<1>2. list \in Events
  BY <1>1 DEF IInv, TypeOK, FlagsSound
<1>3. /\ r \in Event /\ r.evq = ev[list].evq /\ r.known = ev[list].known
      /\ r.delete = ev[list].delete /\ r.index = ev[list].index /\ r.wants = ev[list].wants
  <2>1. ev[list] \in Event
    BY <1>2, Bases
  <2> QED
    BY <2>1 DEF Event
<1> HIDE DEF r
<1>4. /\ ev' \in [Events -> Event] /\ \A x \in Events \ {list} : ev'[x] = ev[x]
      /\ ev[list].evq => ev'[list] = r
      /\ ~ev[list].evq => ev'[list] = Fresh
  BY <1>1, <1>2, <1>3, FreshIsEvent, Bases
<1>5. ev[list].evq \in BOOLEAN /\ Fresh.evq = FALSE
  <2>1. ev[list] \in Event
    BY <1>2, Bases
  <2> QED
    BY <2>1 DEF Event, Fresh
<1>6. TypeOK'
  BY <1>1, <1>2, <1>4, NextInList DEF IInv, TypeOK, Places
<1>7. \A x \in Events : /\ ev'[x].evq = ev[x].evq
                        /\ ev[x].evq => /\ ev'[x].index = ev[x].index
                                        /\ ev'[x].wants = ev[x].wants
                                        /\ ev'[x].known /\ ~ev'[x].delete
  BY <1>3, <1>4, <1>5 DEF IInv, FlagsSound
<1>8. ScanGoesOn /\ at' # "callback"
  BY <1>1 DEF IInv, TypeOK, ScanGoesOn, InSelect
<1> QED
  BY <1>1, <1>6, <1>7, <1>8, QuietKeeps

-----------------------------------------------------------------------------
(* Every step *)

LEMMA StepKeeps == ASSUME IInv, [Next]_vars PROVE IInv'
<1>1. CASE ProgramCalls
  <2>1. ASSUME NEW e \in Events, Del(e) \/ Change(e) PROVE IInv'
    BY <2>1, DelKeeps, ChangeKeeps
  <2>2. ASSUME NEW e \in Events, NEW msec \in {"none", "finite", "infinite"},
               Add(e, msec) \/ SetTimeout(e, msec)
        PROVE  IInv'
    BY <2>2, AddKeeps, SetTimeoutKeeps
  <2> QED
    BY <1>1, <2>1, <2>2, FlagCallsKeep, TriggerKeeps, TriggerEndKeeps, TriggerHangsKeeps
       DEF ProgramCalls
<1>2. CASE LoopSteps
  <2>1. ASSUME NEW limit \in Limits, EnterSelect(limit) PROVE IInv'
    <3>1. limit \in BOOLEAN
      BY QueueAssumption
    <3> QED
      BY <2>1, <3>1, EnterSelectKeeps
  <2>2. ASSUME NEW e \in Events, Expire(e) PROVE IInv'
    BY <2>2, ExpireKeeps
  <2>3. CASE LoopEnds \/ Resume
    BY <2>3, LoopEndsKeeps, ResumeKeeps
  <2>4. CASE ScanFinds \/ ScanPasses \/ ScanEnds \/ ScanBreaks
    BY <2>4, ScanFindsKeeps, ScanGoesOnKeeps
  <2>5. CASE ExpireEnds \/ LoopTimesOut \/ Merge
    BY <2>5, ExpireEndsKeeps, MergeKeeps
  <2>6. CASE ListEnds \/ Call \/ PassOver
    BY <2>6, OutOfListKeeps, CallKeeps, PassOverKeeps
  <2> QED
    BY <1>2, <2>1, <2>2, <2>3, <2>4, <2>5, <2>6 DEF LoopSteps
<1>3. CASE Returns
  BY <1>3, SelectFindsKeeps, SelectEndsKeeps DEF Returns
<1>4. CASE Callbacks
  BY <1>4, CallbackReturnsKeeps, OutOfListKeeps DEF Callbacks
<1>5. CASE UNCHANGED vars
  <2>1. TypeOK'
    BY <1>5 DEF vars, queue, polling, scan, IInv, TypeOK
  <2> QED
    BY <1>5, <2>1, Unscanning, StillKeeps DEF vars, queue, polling, scan, IInv, FlagsSound
<1> QED
  BY <1>1, <1>2, <1>3, <1>4, <1>5 DEF Next

LEMMA IInvHolds == Spec => []IInv
<1>1. IInv /\ [Next]_vars => IInv'
  BY StepKeeps
<1> QED
  BY <1>1, InitHolds, PTL DEF Spec

(* evq->nevents, by which the loop knows that it has nothing left to wait for, is *)
(* the number of events of the queue, for any events: those called by hand, those *)
(* deleted by the scan for one shot, those that leave with their object.          *)
THEOREM EventsAreCounted == Spec => []CountsEvents
<1>1. IInv => CountsEvents
  BY DEF IInv
<1> QED
  BY <1>1, IInvHolds, PTL

(* The array that select's answer is looked up in, the indexes of the events in  *)
(* it, the set given to select and its highest number agree after any additions, *)
(* changes and deletions, those by which the scan moves the array under itself   *)
(* among them.                                                                   *)
THEOREM PollsAgree == Spec => []PollsAreKnown
<1>1. IInv => PollsAreKnown
  BY DEF IInv
<1> QED
  BY <1>1, IInvHolds, PTL

(* Every variable keeps its type, the counts of the scan among them. *)
THEOREM QueueTypeOK == Spec => []TypeOK
<1>1. IInv => TypeOK
  BY DEF IInv
<1> QED
  BY <1>1, IInvHolds, PTL

-----------------------------------------------------------------------------
(* No trigger is slept through *)

(* The answer of select that the pipe can be read is used up in that very turn. *)
WakeInv == /\ TriggersWake
           /\ "pipe" \in hit => at \in {"found", "poll", "merge", "hung", "broken"}

(* Steps that neither empty the pipe nor list an object, and let no answer stand. *)
LEMMA AwakeStays ==
  ASSUME WakeInv, UNCHANGED object_events, pipe => pipe',
         at \in {"poll", "merge", "broken"} => at' \in {"poll", "merge", "broken"},
         "pipe" \in hit' => /\ "pipe" \in hit \/ at' = "found"
                            /\ at' \in {"found", "poll", "merge", "hung", "broken"}
  PROVE  WakeInv'
BY DEF WakeInv, TriggersWake

LEMMA CallsWake == ASSUME WakeInv, ProgramCalls PROVE WakeInv'
<1>1. CASE Trigger \/ TriggerEnd
  <2>1. pipe' /\ UNCHANGED <<at, hit>>
    BY <1>1 DEF Trigger, TriggerEnd, scan
  <2> QED
    BY <2>1 DEF WakeInv, TriggersWake
<1>2. CASE Interrupt \/ Stop \/ LoopBegins \/ TriggerHangs
  <2>1. /\ VmFree /\ (at' = at \/ (at = "out" /\ at' = "test") \/ at' = "hung")
        /\ UNCHANGED <<object_events, hit>> /\ (pipe => pipe')
    BY <1>2 DEF Interrupt, Stop, LoopBegins, TriggerHangs, queue, scan, VmFree
  <2>2. at \notin {"poll", "merge", "broken"}
    BY <2>1 DEF VmFree, InSelect
  <2> QED
    BY <2>1, <2>2, AwakeStays DEF WakeInv
<1>3. ASSUME NEW e \in Events, Del(e) \/ Change(e) PROVE WakeInv'
  <2>1. UNCHANGED <<at, object_events, hit, pipe>>
    BY <1>3 DEF Del, Change, queue, scan
  <2> QED
    BY <2>1, AwakeStays DEF WakeInv
<1>4. ASSUME NEW e \in Events, NEW msec \in {"none", "finite", "infinite"},
             Add(e, msec) \/ SetTimeout(e, msec)
      PROVE  WakeInv'
  <2>1. UNCHANGED <<at, object_events, hit, pipe>>
    BY <1>4 DEF Add, SetTimeout, queue, scan
  <2> QED
    BY <2>1, AwakeStays DEF WakeInv
<1> QED
  BY <1>1, <1>2, <1>3, <1>4 DEF ProgramCalls

LEMMA LoopWakes == ASSUME WakeInv, LoopSteps PROVE WakeInv'
<1>1. CASE Resume
  <2>1. /\ UNCHANGED <<object_events, hit>> /\ pipe' = (pipe /\ "pipe" \notin hit)
        /\ \/ at = "found" /\ at' = "poll"
           \/ at = "timedout" /\ at' = "expire"
           \/ at = "eintr" /\ at' = "merge"
    BY <1>1 DEF Resume, queue, scan
  <2> QED
    BY <2>1 DEF WakeInv, TriggersWake
<1>2. CASE Merge
  <2>1. object_events' = Nil /\ hit' = {}
    BY <1>2 DEF Merge, ScanIsOver
  <2> QED
    BY <2>1 DEF WakeInv, TriggersWake
<1>3. CASE LoopTimesOut \/ \E limit \in Limits : EnterSelect(limit)
  <2>1. /\ UNCHANGED <<object_events, pipe>> /\ hit' = {}
        /\ at \notin {"poll", "merge", "broken"}
    BY <1>3 DEF LoopTimesOut, ScanIsOver, EnterSelect, queue
  <2> QED
    BY <2>1, AwakeStays
<1>4. CASE ScanFinds \/ ScanBreaks \/ ScanPasses \/ ScanEnds
  <2>1. /\ UNCHANGED <<object_events, pipe, hit>>
        /\ at = "poll" /\ at' \in {"poll", "merge", "broken"}
    BY <1>4 DEF ScanFinds, ScanBreaks, ScanPasses, ScanEnds, Scanning, queue, scan
  <2> QED
    BY <2>1, AwakeStays
<1>5. CASE (\E e \in Events : Expire(e)) \/ LoopEnds \/ ExpireEnds \/ ListEnds \/ Call \/ PassOver
  <2>1. /\ UNCHANGED <<object_events, pipe, hit>>
        /\ at \in {"test", "expire", "list"}
    BY <1>5 DEF Expire, LoopEnds, ExpireEnds, ListEnds, Call, PassOver, queue, scan
  <2> QED
    BY <2>1, AwakeStays DEF WakeInv
<1> QED
  BY <1>1, <1>2, <1>3, <1>4, <1>5 DEF LoopSteps

LEMMA WorldWakes == ASSUME WakeInv, Returns \/ Callbacks PROVE WakeInv'
<1>1. ASSUME NEW fds \in SUBSET FdEvents, SelectFinds(fds) PROVE WakeInv'
  <2>1. at = "select" /\ at' = "found" /\ UNCHANGED <<object_events, pipe>>
    BY <1>1 DEF SelectFinds, queue
  <2> QED
    BY <2>1, AwakeStays
<1>2. CASE SelectTimesOut \/ SelectIsInterrupted \/ Callbacks
  <2>1. /\ UNCHANGED <<object_events, pipe, hit>>
        /\ at \in {"select", "callback", "interrupt"}
    BY <1>2 DEF SelectTimesOut, SelectIsInterrupted, Callbacks, CallbackReturns,
                InterruptReturns, CallbackFails, queue, scan
  <2> QED
    BY <2>1, AwakeStays DEF WakeInv
<1> QED
  BY <1>1, <1>2 DEF Returns

(* As long as events of objects wait to be called there is something to read in   *)
(* the pipe, for any events, calls and other threads: it is emptied only on an     *)
(* answer of select that knew it could be read, and from then on the loop goes on *)
(* to the merge without giving up the VM.  The pipe may say more than is there,   *)
(* never less.                                                                     *)
THEOREM QueueTriggersWake == Spec => []TriggersWake
<1>1. Init => WakeInv
  BY DEF Init, WakeInv, TriggersWake
<1>2. WakeInv /\ [Next]_vars => WakeInv'
  <2> SUFFICES ASSUME WakeInv, [Next]_vars PROVE WakeInv'
    OBVIOUS
  <2>1. CASE UNCHANGED vars
    BY <2>1, AwakeStays DEF vars, queue, scan, WakeInv
  <2> QED
    BY <2>1, CallsWake, LoopWakes, WorldWakes DEF Next
<1>3. WakeInv => TriggersWake
  BY DEF WakeInv
<1> QED
  BY <1>1, <1>2, <1>3, PTL DEF Spec

LEMMA IntoSelect ==
  ASSUME at = "test", at' = "select", Next
  PROVE  \E limit \in Limits : EnterSelect(limit)
<1>1. ~VmFree
  BY DEF VmFree, InSelect
<1>2. ~ProgramCalls
  BY <1>1 DEF ProgramCalls, Del, Change, Add, SetTimeout, Interrupt, Stop, LoopBegins, Trigger,
              TriggerEnd, TriggerHangs, CanTrigger
<1>3. ~Returns /\ ~Callbacks
  BY DEF Returns, SelectFinds, SelectTimesOut, SelectIsInterrupted, Callbacks, CallbackReturns,
         InterruptReturns, CallbackFails
<1>4. LoopSteps
  BY <1>2, <1>3 DEF Next
<1>5. ~(LoopEnds \/ Resume \/ ScanFinds \/ ScanBreaks \/ ScanPasses \/ ScanEnds)
  BY DEF LoopEnds, Resume, ScanFinds, ScanBreaks, ScanPasses, ScanEnds, Scanning
<1>6. ~((\E e \in Events : Expire(e)) \/ ExpireEnds \/ LoopTimesOut \/ Merge)
  BY DEF Expire, ExpireEnds, LoopTimesOut, Merge
<1>7. ~(ListEnds \/ Call \/ PassOver)
  BY DEF ListEnds, Call, PassOver
<1> QED
  BY <1>4, <1>5, <1>6, <1>7 DEF LoopSteps

(* Select does without the pipe only while no descriptor above the pipe is registered, *)
(* whichever descriptors are added, deleted, changed and moved: the highest number     *)
(* that is kept, or looked for again without the pipe, is not below any of theirs.     *)
THEOREM SelectHearsTriggers == Spec => SelectHearsPipe
<1>1. ASSUME IInv, [Next]_vars, at = "test", at' = "select"
      PROVE  PipeIsWatched' \/ \A e \in FdEvents : ev[e].evq => Fd[e] < PipeFd
  <2>1. Next
    BY <1>1 DEF vars
  <2>2. PICK limit \in Limits : EnterSelect(limit)
    BY <1>1, <2>1, IntoSelect
  <2>3. sel'.max_fd = Highest
    BY <2>2 DEF EnterSelect
  <2>4. /\ Highest \in Int
        /\ Highest = -1 \/ \A e \in FdEvents : ev[e].evq => Fd[e] <= Highest
        /\ Highest = -1 => {e \in FdEvents : ev[e].evq} = {}
    BY <1>1, HighestIsHighest
  <2>5. PipeFd \in Int /\ \A e \in FdEvents : Fd[e] \in Int
    BY QueueAssumption
  <2>6. CASE PipeFd <= Highest
    BY <2>3, <2>6 DEF PipeIsWatched
  <2>7. ASSUME ~(PipeFd <= Highest), NEW e \in FdEvents, ev[e].evq PROVE Fd[e] < PipeFd
    <3>1. Highest # -1
      BY <2>4, <2>7
    <3> QED
      BY <2>4, <2>5, <2>7, <3>1
  <2> QED
    BY <2>6, <2>7
<1>2. IInv /\ [Next]_vars =>
        [at = "test" /\ at' = "select" =>
           PipeIsWatched' \/ \A e \in FdEvents : ev[e].evq => Fd[e] < PipeFd]_vars
  BY <1>1
<1> QED
  BY <1>2, IInvHolds, PTL DEF Spec, SelectHearsPipe

-----------------------------------------------------------------------------
(* Lists through next_ready *)

(* h is the head of a list that links the events of s, each once. *)
Links(E, s, h) ==
  /\ s \in Seq(Events) /\ IsInjective(s)
  /\ h = IF s = <<>> THEN Nil ELSE s[1]
  /\ \A k \in 1..Len(s) : E[s[k]].next = IF k = Len(s) THEN Nil ELSE s[k + 1]

(* The events of S have the same links in F as in E. *)
SameLinks(E, F, S) == \A x \in S : F[x].next = E[x].next

LEMMA LinksFits ==
  ASSUME NEW s \in Seq(Events), IsInjective(s)
  PROVE  /\ Len(s) \in Nat /\ Cardinality(Events) \in Nat /\ Len(s) <= Cardinality(Events)
         /\ DOMAIN s = 1..Len(s) /\ \A k \in 1..Len(s) : s[k] \in Events
         /\ s = <<>> <=> Len(s) = 0
<1>1. Len(s) \in Nat /\ DOMAIN s = 1..Len(s) /\ (\A k \in 1..Len(s) : s[k] \in Events)
  BY LenProperties
<1>2. s = <<>> <=> Len(s) = 0
  BY EmptySeq, LenProperties
<1>3. ToSet(s) \subseteq Events
  BY <1>1 DEF ToSet
<1> QED
  BY <1>1, <1>2, <1>3, CardinalityOfSeq, FiniteEvents, FS_Subset, FS_CardinalityType

(* Chain unfolded: by the definition of the chain, for which the list is a witness. *)
LEMMA ChainOf ==
  ASSUME NEW s, NEW h, Links(ev, s, h)
  PROVE  Chain(h) = [k \in 0..Cardinality(Events) |-> IF k < Len(s) THEN s[k + 1] ELSE Nil]
<1> DEFINE n == Cardinality(Events)
           Step(c) == [k \in 0..n |-> IF k = 0 THEN h ELSE IF c[k - 1] = Nil THEN Nil ELSE ev[c[k - 1]].next]
           w == [k \in 0..n |-> IF k < Len(s) THEN s[k + 1] ELSE Nil]
<1>1. /\ Len(s) \in Nat /\ n \in Nat /\ Len(s) <= n /\ Nil \notin Events
      /\ \A k \in 1..Len(s) : s[k] \in Events
      /\ s = <<>> <=> Len(s) = 0
  BY LinksFits, FiniteEvents DEF Links
<1>2. w = Step(w)
  <2>1. ASSUME NEW k \in 0..n PROVE w[k] = Step(w)[k]
    <3>1. CASE k = 0
      BY <3>1, <1>1 DEF Links
    <3>2. CASE k # 0 /\ k - 1 < Len(s)
      <4>1. k \in 1..Len(s) /\ k - 1 \in 0..n /\ w[k - 1] = s[k] /\ s[k] # Nil
        BY <3>2, <1>1
      <4>2. Step(w)[k] = ev[s[k]].next
        BY <4>1, <3>2
      <4>3. ev[s[k]].next = IF k = Len(s) THEN Nil ELSE s[k + 1]
        BY <4>1 DEF Links
      <4> QED
        BY <4>1, <4>2, <4>3, <1>1
    <3>3. CASE k # 0 /\ ~(k - 1 < Len(s))
      <4>1. k - 1 \in 0..n /\ w[k - 1] = Nil /\ w[k] = Nil
        BY <3>3, <1>1
      <4> QED
        BY <4>1, <3>3
    <3> QED
      BY <3>1, <3>2, <3>3
  <2> QED
    BY <2>1
<1>3. ASSUME NEW c, c = Step(c) PROVE c = w
  <2> DEFINE Bad == {k \in 0..n : c[k] # w[k]}
  <2>1. Bad = {}
    <3> SUFFICES ASSUME Bad # {} PROVE FALSE
      OBVIOUS
    <3>0. Bad \in SUBSET Nat
      BY <1>1
    <3>1. PICK k \in Bad : \A x \in Bad : k <= x
      BY <3>0, LeastExists
    <3>2. Step(c)[k] # Step(w)[k] /\ k \in 0..n
      BY <3>1, <1>2, <1>3
    <3>3. k # 0
      BY <3>2
    <3>4. k - 1 \in 0..n /\ k - 1 \notin Bad
      BY <3>1, <3>2, <3>3, <1>1
    <3>5. c[k - 1] = w[k - 1]
      BY <3>4
    <3> QED
      BY <3>2, <3>3, <3>5
  <2>2. c = [k \in 0..n |-> c[k]]
    BY <1>3
  <2> QED
    BY <2>1, <2>2
<1>4. Chain(h) = CHOOSE c : c = Step(c)
  BY DEF Chain
<1> HIDE DEF w, Step
<1> QED
  BY <1>2, <1>3, <1>4 DEF w

LEMMA LinkedMembers ==
  ASSUME NEW s, NEW h, Links(ev, s, h)
  PROVE  /\ Members(h) = ToSet(s) /\ Terminates(h)
         /\ s # <<>> => EndsOf(h) = {s[Len(s)]}
<1> DEFINE n == Cardinality(Events)
<1>1. /\ Len(s) \in Nat /\ n \in Nat /\ Len(s) <= n /\ Nil \notin Events
      /\ DOMAIN s = 1..Len(s) /\ \A k \in 1..Len(s) : s[k] \in Events
      /\ s = <<>> <=> Len(s) = 0
  BY LinksFits, FiniteEvents DEF Links
<1>2. \A k \in 0..n : Chain(h)[k] = IF k < Len(s) THEN s[k + 1] ELSE Nil
  BY ChainOf
<1>3. Members(h) = ToSet(s)
  <2>1. ASSUME NEW e \in Members(h) PROVE e \in ToSet(s)
    <3>1. PICK k \in 0..n : Chain(h)[k] = e /\ e \in Events
      BY <2>1 DEF Members
    <3>2. k < Len(s) /\ e = s[k + 1]
      BY <3>1, <1>2, <1>1
    <3> QED
      BY <3>2, <1>1 DEF ToSet
  <2>2. ASSUME NEW e \in ToSet(s) PROVE e \in Members(h)
    <3>1. PICK k \in 1..Len(s) : s[k] = e
      BY <2>2, <1>1 DEF ToSet
    <3>2. k - 1 \in 0..n /\ Chain(h)[k - 1] = e /\ e \in Events
      BY <3>1, <1>1, <1>2
    <3> QED
      BY <3>2 DEF Members
  <2> QED
    BY <2>1, <2>2
<1>4. Terminates(h)
  <2>1. Len(s) \in 0..n /\ Chain(h)[Len(s)] = Nil
    BY <1>1, <1>2
  <2> QED
    BY <2>1 DEF Terminates
<1>5. ASSUME s # <<>> PROVE EndsOf(h) = {s[Len(s)]}
  <2>1. \A k \in 1..Len(s) : ev[s[k]].next = Nil <=> k = Len(s)
    <3>1. ASSUME NEW k \in 1..Len(s), k # Len(s) PROVE s[k + 1] # Nil
      <4>1. \A m \in Nat : \A j \in 1..m : j # m => j + 1 \in 1..m
        OBVIOUS
      <4>2. k + 1 \in 1..Len(s)
        BY <4>1, <3>1, <1>1
      <4> QED
        BY <4>2, <1>1
    <3> QED
      BY <3>1, <1>1 DEF Links
  <2>2. Len(s) \in 1..Len(s)
    BY <1>5, <1>1
  <2> QED
    BY <1>1, <1>3, <2>1, <2>2 DEF EndsOf, ToSet
<1> QED
  BY <1>3, <1>4, <1>5

(* What the operations do to a list: nothing, as long as its events keep their links; *)
LEMMA LinksSame ==
  ASSUME NEW E, NEW F, NEW s, NEW h, Links(E, s, h), \A e \in ToSet(s) : F[e].next = E[e].next
  PROVE  Links(F, s, h)
<1>1. \A k \in 1..Len(s) : s[k] \in ToSet(s)
  BY LinksFits DEF Links, ToSet
<1> QED
  BY <1>1 DEF Links

(* an event put before it; *)
LEMMA LinksCons ==
  ASSUME NEW E, NEW F, NEW s, NEW h, Links(E, s, h), NEW e \in Events, e \notin ToSet(s),
         F[e].next = h, \A x \in ToSet(s) : F[x].next = E[x].next
  PROVE  Links(F, <<e>> \o s, e) /\ ToSet(<<e>> \o s) = ToSet(s) \cup {e}
<1> DEFINE t == <<e>> \o s
<1>1. s \in Seq(Events) /\ IsInjective(s) /\ Links(F, s, h)
  BY LinksSame DEF Links
<1>2. t \in Seq(Events) /\ IsInjective(t) /\ ToSet(t) = ToSet(s) \cup {e}
  BY <1>1, Prepended
<1>3. Len(s) \in Nat /\ (s = <<>> <=> Len(s) = 0)
  BY <1>1, LinksFits
<1>4. /\ Len(t) = Len(s) + 1 /\ t[1] = e /\ t # <<>>
      /\ \A k \in 1..Len(s) : t[k + 1] = s[k]
  <2>1. <<e>> \in Seq(Events) /\ Len(<<e>>) = 1 /\ <<e>>[1] = e
    OBVIOUS
  <2>2. Len(t) = Len(s) + 1
    BY <2>1, <1>1, ConcatProperties
  <2>3. \A k \in 1..Len(t) : t[k] = IF k <= 1 THEN <<e>>[k] ELSE s[k - 1]
    BY <2>1, <2>2, <1>1, ConcatProperties
  <2>4. t # <<>>
    BY <2>2, <1>2, <1>3, EmptySeq, LinksFits
  <2>5. ASSUME NEW k \in 1..Len(s) PROVE t[k + 1] = s[k]
    <3>1. k + 1 \in 1..Len(t) /\ ~(k + 1 <= 1) /\ k + 1 - 1 = k
      BY <1>3, <2>2
    <3> QED
      BY <3>1, <2>3
  <2> QED
    BY <2>1, <2>2, <2>3, <2>4, <2>5, <1>3
<1> HIDE DEF t
<1>5. ASSUME NEW k \in 1..Len(t) PROVE F[t[k]].next = IF k = Len(t) THEN Nil ELSE t[k + 1]
  <2>1. CASE k = 1
    <3>1. h = IF s = <<>> THEN Nil ELSE s[1]
      BY DEF Links
    <3>2. CASE s = <<>>
      BY <2>1, <3>1, <3>2, <1>3, <1>4
    <3>3. CASE s # <<>>
      <4>1. 1 \in 1..Len(s) /\ Len(t) # 1
        BY <3>3, <1>3, <1>4
      <4>2. t[1 + 1] = s[1]
        BY <4>1, <1>4
      <4> QED
        BY <2>1, <3>1, <3>3, <4>1, <4>2, <1>4
    <3> QED
      BY <3>2, <3>3
  <2>2. CASE k # 1
    <3>1. k - 1 \in 1..Len(s) /\ k - 1 + 1 = k
      BY <2>2, <1>3, <1>4
    <3>2. t[k] = s[k - 1]
      BY <3>1, <1>4
    <3>3. F[s[k - 1]].next = IF k - 1 = Len(s) THEN Nil ELSE s[k]
      BY <3>1, <1>1 DEF Links
    <3>4. k # Len(t) => k \in 1..Len(s)
      BY <1>3, <1>4
    <3> QED
      BY <3>1, <3>2, <3>3, <3>4, <1>3, <1>4
  <2> QED
    BY <2>1, <2>2
<1> QED
  BY <1>2, <1>4, <1>5 DEF Links, t

(* its head taken away; *)
LEMMA LinksTail ==
  ASSUME NEW E, NEW F, NEW s, NEW h, Links(E, s, h), h # Nil,
         \A x \in ToSet(s) \ {h} : F[x].next = E[x].next
  PROVE  /\ h \in ToSet(s) /\ h \in Events
         /\ Links(F, Tail(s), E[h].next) /\ ToSet(Tail(s)) = ToSet(s) \ {h}
<1> DEFINE t == Tail(s)
<1>1. s # <<>> /\ h = s[1] /\ s \in Seq(Events) /\ IsInjective(s)
  BY DEF Links
<1>2. /\ Len(s) \in Nat /\ Len(s) # 0 /\ 1 \in 1..Len(s)
      /\ \A k \in 1..Len(s) : s[k] \in ToSet(s) /\ s[k] \in Events
  BY <1>1, LinksFits DEF ToSet
<1>3. /\ t \in Seq(Events) /\ IsInjective(t) /\ ToSet(t) = ToSet(s) \ {h}
      /\ Len(t) = Len(s) - 1 /\ \A k \in 1..Len(t) : t[k] = s[k + 1]
  <2>1. Head(s) = h
    BY <1>1
  <2>2. t \in Seq(Events) /\ IsInjective(t) /\ ToSet(s) = ToSet(t) \cup {h} /\ h \notin ToSet(t)
    BY <2>1, <1>1, Tailed
  <2>3. Len(t) = Len(s) - 1 /\ \A k \in 1..Len(t) : t[k] = s[k + 1]
    BY <1>1, HeadTailProperties
  <2> QED
    BY <2>2, <2>3
<1>4. t = <<>> <=> Len(s) = 1
  <2>1. Len(t) \in Nat /\ (t = <<>> <=> Len(t) = 0)
    BY <1>3, LinksFits
  <2> QED
    BY <2>1, <1>2, <1>3
<1>5. E[h].next = IF t = <<>> THEN Nil ELSE t[1]
  <2>1. E[s[1]].next = IF 1 = Len(s) THEN Nil ELSE s[1 + 1]
    BY <1>2 DEF Links
  <2>2. Len(s) # 1 => 1 \in 1..Len(t)
    BY <1>2, <1>3
  <2> QED
    BY <2>1, <2>2, <1>1, <1>3, <1>4
<1> HIDE DEF t
<1>6. ASSUME NEW k \in 1..Len(t) PROVE F[t[k]].next = IF k = Len(t) THEN Nil ELSE t[k + 1]
  <2>1. k + 1 \in 1..Len(s) /\ (k = Len(t) <=> k + 1 = Len(s))
    BY <1>2, <1>3
  <2>2. k # Len(t) => k + 1 \in 1..Len(t)
    BY <1>2, <1>3
  <2>3. E[s[k + 1]].next = IF k + 1 = Len(s) THEN Nil ELSE s[k + 1 + 1]
    BY <2>1 DEF Links
  <2>4. s[k + 1] \in ToSet(t)
    <3>1. t[k] \in ToSet(t)
      BY <1>3, LinksFits DEF ToSet
    <3> QED
      BY <3>1, <1>3
  <2>5. F[s[k + 1]].next = E[s[k + 1]].next
    BY <2>4, <1>3
  <2> QED
    BY <2>1, <2>2, <2>3, <2>5, <1>3
<1> QED
  BY <1>1, <1>2, <1>3, <1>5, <1>6 DEF Links, t

(* another put behind it; *)
LEMMA LinksJoin ==
  ASSUME NEW E, NEW F, NEW o, NEW g, NEW s, NEW h, Links(E, o, g), Links(E, s, h),
         o # <<>>, ToSet(o) \cap ToSet(s) = {}, F[o[Len(o)]].next = h,
         SameLinks(E, F, (ToSet(o) \cup ToSet(s)) \ {o[Len(o)]})
  PROVE  Links(F, o \o s, g) /\ ToSet(o \o s) = ToSet(o) \cup ToSet(s)
<1> DEFINE t == o \o s
<1>0. \A x \in (ToSet(o) \cup ToSet(s)) \ {o[Len(o)]} : F[x].next = E[x].next
  BY DEF SameLinks
<1>1. o \in Seq(Events) /\ IsInjective(o) /\ s \in Seq(Events) /\ IsInjective(s) /\ g = o[1]
  BY DEF Links
<1>2. /\ Len(o) \in Nat /\ Len(s) \in Nat /\ Len(o) # 0 /\ (s = <<>> <=> Len(s) = 0)
      /\ DOMAIN o = 1..Len(o) /\ DOMAIN s = 1..Len(s)
      /\ \A k \in 1..Len(o) : o[k] \in ToSet(o)
      /\ \A k \in 1..Len(s) : s[k] \in ToSet(s)
  BY <1>1, LinksFits DEF ToSet
<1>3. /\ t \in Seq(Events) /\ Len(t) = Len(o) + Len(s)
      /\ \A k \in 1..Len(t) : t[k] = IF k <= Len(o) THEN o[k] ELSE s[k - Len(o)]
  BY <1>1, ConcatProperties
<1> HIDE DEF t
<1>4. DOMAIN t = 1..Len(t) /\ (t = <<>> <=> Len(t) = 0)
  BY <1>3, LenProperties, EmptySeq
<1>5. \A k \in 1..Len(t) : k <= Len(o) => k \in 1..Len(o) /\ t[k] = o[k]
  BY <1>2, <1>3
<1>6. \A k \in 1..Len(t) : ~(k <= Len(o)) => k - Len(o) \in 1..Len(s) /\ t[k] = s[k - Len(o)]
  BY <1>2, <1>3
<1>7. IsInjective(t)
  <2>1. ASSUME NEW a \in 1..Len(t), NEW b \in 1..Len(t), t[a] = t[b] PROVE a = b
    <3>1. CASE a <= Len(o) /\ b <= Len(o)
      BY <2>1, <3>1, <1>1, <1>2, <1>5 DEF IsInjective
    <3>2. CASE ~(a <= Len(o)) /\ ~(b <= Len(o))
      <4>1. /\ a - Len(o) \in DOMAIN s /\ t[a] = s[a - Len(o)]
            /\ b - Len(o) \in DOMAIN s /\ t[b] = s[b - Len(o)]
        BY <3>2, <1>2, <1>6
      <4>2. a - Len(o) = b - Len(o)
        BY <2>1, <4>1, <1>1 DEF IsInjective
      <4>3. a \in Nat /\ b \in Nat
        BY <1>2, <1>3
      <4> QED
        BY <4>2, <4>3, <1>2
    <3>3. CASE (a <= Len(o) /\ ~(b <= Len(o))) \/ (~(a <= Len(o)) /\ b <= Len(o))
      BY <2>1, <3>3, <1>2, <1>5, <1>6
    <3> QED
      BY <3>1, <3>2, <3>3
  <2> QED
    BY <2>1, <1>4 DEF IsInjective
<1>8. ToSet(t) = ToSet(o) \cup ToSet(s)
  <2>1. \A k \in 1..Len(t) : t[k] \in ToSet(o) \cup ToSet(s)
    BY <1>2, <1>5, <1>6
  <2>2. ASSUME NEW k \in 1..Len(o) PROVE o[k] \in ToSet(t)
    <3>1. k \in 1..Len(t) /\ k <= Len(o)
      BY <1>2, <1>3
    <3> QED
      BY <3>1, <1>4, <1>5 DEF ToSet
  <2>3. ASSUME NEW k \in 1..Len(s) PROVE s[k] \in ToSet(t)
    <3>1. k + Len(o) \in 1..Len(t) /\ ~(k + Len(o) <= Len(o)) /\ k + Len(o) - Len(o) = k
      BY <1>2, <1>3
    <3>2. t[k + Len(o)] = s[k]
      BY <3>1, <1>6
    <3> QED
      BY <3>1, <3>2, <1>4 DEF ToSet
  <2>4. ToSet(t) \subseteq ToSet(o) \cup ToSet(s)
    BY <2>1, <1>4 DEF ToSet
  <2>5. ToSet(o) \subseteq ToSet(t)
    BY <2>2, <1>2 DEF ToSet
  <2>6. ToSet(s) \subseteq ToSet(t)
    BY <2>3, <1>2 DEF ToSet
  <2> QED
    BY <2>4, <2>5, <2>6
<1>9. ASSUME NEW k \in 1..Len(t) PROVE F[t[k]].next = IF k = Len(t) THEN Nil ELSE t[k + 1]
  <2>0. k # Len(t) => k + 1 \in 1..Len(t)
    <3>1. \A m \in Nat : \A j \in 1..m : j # m => j + 1 \in 1..m
      OBVIOUS
    <3>2. Len(t) \in Nat
      BY <1>2, <1>3
    <3> QED
      BY <3>1, <3>2
  <2>1. CASE k < Len(o)
    <3>1. k \in 1..Len(o) /\ k + 1 \in 1..Len(t) /\ k + 1 <= Len(o) /\ k # Len(t) /\ k # Len(o)
          /\ Len(o) \in 1..Len(o)
      <4>1. Len(o) \in Nat /\ Len(s) \in Nat /\ Len(t) = Len(o) + Len(s)
        BY <1>2, <1>3
      <4> QED
        BY <2>1, <4>1
    <3>2. E[o[k]].next = o[k + 1]
      BY <3>1 DEF Links
    <3>3. o[k] # o[Len(o)]
      BY <3>1, <1>1, <1>2 DEF IsInjective
    <3>4. t[k] = o[k] /\ t[k + 1] = o[k + 1]
      BY <3>1, <1>5
    <3> QED
      BY <3>1, <3>2, <3>3, <3>4, <1>0, <1>2
  <2>2. CASE k = Len(o)
    <3>1. t[k] = o[k] /\ (k = Len(t) <=> s = <<>>)
      BY <2>2, <1>2, <1>3, <1>5
    <3>2. s # <<>> => t[k + 1] = s[1]
      <4>1. s # <<>> => k + 1 \in 1..Len(t) /\ ~(k + 1 <= Len(o)) /\ k + 1 - Len(o) = 1
        BY <2>2, <1>2, <1>3
      <4> QED
        BY <4>1, <1>6
    <3> QED
      BY <2>2, <3>1, <3>2 DEF Links
  <2>3. CASE k > Len(o)
    <3>1. /\ k - Len(o) \in 1..Len(s) /\ t[k] = s[k - Len(o)]
          /\ (k = Len(t) <=> k - Len(o) = Len(s))
      BY <2>3, <1>2, <1>3, <1>6
    <3>2. E[t[k]].next = IF k = Len(t) THEN Nil ELSE s[k - Len(o) + 1]
      BY <3>1 DEF Links
    <3>3. k # Len(t) => t[k + 1] = s[k - Len(o) + 1]
      <4>1. k # Len(t) => ~(k + 1 <= Len(o)) /\ k + 1 - Len(o) = k - Len(o) + 1
        BY <2>3, <1>2
      <4> QED
        BY <4>1, <2>0, <1>6
    <3>4. t[k] \in ToSet(s) /\ o[Len(o)] \in ToSet(o)
      <4>1. Len(o) \in 1..Len(o)
        BY <1>2
      <4> QED
        BY <4>1, <3>1, <1>2
    <3> QED
      BY <3>2, <3>3, <3>4, <1>0
  <2>4. k \in Int /\ Len(o) \in Int
    BY <1>2, <1>3
  <2>5. k < Len(o) \/ k = Len(o) \/ k > Len(o)
    BY <2>4
  <2> QED
    BY <2>1, <2>2, <2>3, <2>5
<1>10. g = IF t = <<>> THEN Nil ELSE t[1]
  <2>1. 1 \in 1..Len(t) /\ 1 <= Len(o)
    BY <1>2, <1>3
  <2> QED
    BY <2>1, <1>1, <1>2, <1>3, <1>4, <1>5
<1> QED
  BY <1>3, <1>7, <1>8, <1>9, <1>10 DEF Links, t

(* the events of the object pushed before it, one by one, the first of them first. *)
Pushes(F, w, g) == \A k \in 1..Len(w) : F[w[k]].next = IF k = 1 THEN g ELSE w[k - 1]

LEMMA LinksPush ==
  ASSUME NEW E, NEW F, NEW o, NEW g, Links(E, o, g), NEW w \in Seq(Events), IsInjective(w),
         w # <<>>, ToSet(w) \cap ToSet(o) = {}, SameLinks(E, F, ToSet(o)),
         Pushes(F, w, g)
  PROVE  \E r \in Seq(Events) : Links(F, r, w[Len(w)]) /\ ToSet(r) = ToSet(w) \cup ToSet(o)
<1> DEFINE n == Len(w)
           v == [k \in 1..n |-> w[n - k + 1]]
           M == [x \in Events |-> [next |-> IF x = w[1] THEN Nil ELSE F[x].next]]
<1>0. \A k \in 1..n : F[w[k]].next = IF k = 1 THEN g ELSE w[k - 1]
  BY DEF Pushes
<1>1. /\ n \in Nat /\ n # 0 /\ DOMAIN w = 1..n
      /\ \A k \in 1..n : w[k] \in ToSet(w) /\ w[k] \in Events
      /\ \A j, k \in 1..n : w[j] = w[k] => j = k
  BY LinksFits DEF IsInjective, ToSet
<1>2. \A k \in 1..n : n - k + 1 \in 1..n /\ n - (n - k + 1) + 1 = k
  BY <1>1
<1>3. v \in Seq(Events) /\ Len(v) = n /\ \A k \in 1..n : v[k] = w[n - k + 1]
  <2>1. v \in [1..n -> Events]
    BY <1>1, <1>2
  <2>2. Len(v) = n
    BY <1>1
  <2>3. v \in Seq(Events)
    BY <2>1, <1>1, IsASeq
  <2> QED
    BY <2>2, <2>3
<1> HIDE DEF v
<1>4. DOMAIN v = 1..n /\ v # <<>>
  BY <1>1, <1>3, LenProperties, EmptySeq
<1>5. IsInjective(v)
  <2>1. ASSUME NEW a \in 1..n, NEW b \in 1..n, v[a] = v[b] PROVE a = b
    <3>1. n - a + 1 = n - b + 1
      <4>1. w[n - a + 1] = w[n - b + 1] /\ n - a + 1 \in 1..n /\ n - b + 1 \in 1..n
        BY <2>1, <1>2, <1>3
      <4> HIDE DEF n
      <4> QED
        BY <4>1, <1>1
    <3> QED
      BY <3>1, <1>1
  <2> QED
    BY <2>1, <1>4 DEF IsInjective
<1>6. ToSet(v) = ToSet(w)
  <2>1. ASSUME NEW k \in 1..n PROVE v[k] \in ToSet(w)
    BY <1>1, <1>2, <1>3
  <2>2. ASSUME NEW k \in 1..n PROVE w[k] \in ToSet(v)
    <3>1. n - k + 1 \in 1..n /\ v[n - k + 1] = w[k]
      BY <1>2, <1>3
    <3> QED
      BY <3>1, <1>4 DEF ToSet
  <2>3. ToSet(v) \subseteq ToSet(w)
    BY <2>1, <1>4 DEF ToSet
  <2>4. ToSet(w) \subseteq ToSet(v)
    BY <2>2, <1>1 DEF ToSet
  <2> QED
    BY <2>3, <2>4
<1>7. v[1] = w[n] /\ v[n] = w[1] /\ 1 \in 1..n /\ n \in 1..n
  <2>1. 1 \in 1..n /\ n \in 1..n /\ n - 1 + 1 = n /\ n - n + 1 = 1
    BY <1>1
  <2> QED
    BY <2>1, <1>3
<1>8. \A x \in Events : M[x].next = IF x = w[1] THEN Nil ELSE F[x].next
  OBVIOUS
<1> HIDE DEF M
<1>9. Links(M, v, w[n])
  <2>1. ASSUME NEW k \in 1..n PROVE M[v[k]].next = IF k = n THEN Nil ELSE v[k + 1]
    <3>1. v[k] = w[n - k + 1] /\ n - k + 1 \in 1..n
      BY <1>2, <1>3
    <3>2. CASE k = n
      BY <3>1, <3>2, <1>1, <1>7, <1>8
    <3>3. CASE k # n
      <4>1. n - k + 1 # 1 /\ k + 1 \in 1..n /\ n - k + 1 - 1 = n - (k + 1) + 1
        <5>1. n \in Nat
          BY <1>1
        <5> HIDE DEF n
        <5> QED
          BY <5>1, <3>3
      <4>2. w[n - k + 1] # w[1]
        BY <4>1, <3>1, <1>1, <1>7
      <4>3. M[v[k]].next = F[w[n - k + 1]].next
        BY <3>1, <4>2, <1>1, <1>8
      <4>4. F[w[n - k + 1]].next = w[n - k + 1 - 1]
        BY <3>1, <4>1, <1>0
      <4>5. v[k + 1] = w[n - (k + 1) + 1]
        BY <4>1, <1>3
      <4> QED
        BY <3>3, <4>1, <4>3, <4>4, <4>5
    <3> QED
      BY <3>2, <3>3
  <2> QED
    BY <2>1, <1>3, <1>4, <1>5, <1>7 DEF Links
<1>10. Links(M, o, g)
  <2>1. ToSet(o) \subseteq Events
    BY LinksFits DEF Links, ToSet
  <2>2. \A x \in ToSet(o) : M[x].next = E[x].next
    BY <2>1, <1>1, <1>7, <1>8 DEF SameLinks
  <2> QED
    BY <2>2, LinksSame
<1>11. F[v[n]].next = g
  BY <1>0, <1>7
<1>12. SameLinks(M, F, (ToSet(v) \cup ToSet(o)) \ {v[n]})
  <2>1. ToSet(v) \cup ToSet(o) \subseteq Events
    BY <1>3, LinksFits DEF Links, ToSet
  <2> QED
    BY <2>1, <1>7, <1>8 DEF SameLinks
<1>13. Links(F, v \o o, w[n]) /\ ToSet(v \o o) = ToSet(v) \cup ToSet(o)
  <2>1. ToSet(v) \cap ToSet(o) = {} /\ v # <<>> /\ F[v[Len(v)]].next = g
    BY <1>3, <1>4, <1>6, <1>11
  <2>2. SameLinks(M, F, (ToSet(v) \cup ToSet(o)) \ {v[Len(v)]})
    BY <1>3, <1>12
  <2> DEFINE c == w[n]
  <2>3. Links(M, v, c) /\ Links(M, o, g)
    BY <1>9, <1>10
  <2> HIDE DEF c, n
  <2>4. Links(F, v \o o, c)
    BY <2>1, <2>2, <2>3, LinksJoin
  <2>5. ToSet(v \o o) = ToSet(v) \cup ToSet(o)
    BY <2>1, <2>2, <2>3, <2>4, LinksJoin
  <2> QED
    BY <2>4, <2>5 DEF c
<1>14. v \o o \in Seq(Events)
  BY <1>13 DEF Links
<1> QED
  BY <1>6, <1>13, <1>14

-----------------------------------------------------------------------------
(* The invariant of the two lists *)

(* An event of an object that has a deadline may be listed twice, by the object *)
(* and by its timer.                                                           *)
Untimed == Deadlines \cap ObjectEvents = {}

Holding == {"poll", "expire", "merge", "list", "callback", "hung", "crashed", "broken"}

MarksSound ==
  /\ \A e \in Events : /\ ev[e].active => ev[e].known
                       /\ ev[e].tq # "none" => ev[e].evq
                       /\ ev[e].tq = "finite" => e \in Deadlines
  /\ at \notin Holding => list = Nil
  /\ at = "expire" => due \subseteq Finite

(* The list of the loop links s, that of the objects o; what the timers have not     *)
(* reached is in neither, and so may be listed, and neither is what the scan has not *)
(* reached, unless another thread has deleted descriptors in select.                 *)
ListsSound(s, o) ==
  /\ Links(ev, s, list) /\ Links(ev, o, object_events)
  /\ ToSet(s) \cap ToSet(o) = {} /\ abandoned \cap (ToSet(s) \cup ToSet(o)) = {}
  /\ {e \in Events : ev[e].active} = ToSet(s) \cup ToSet(o) \cup abandoned
  /\ ToSet(o) \subseteq ObjectEvents
  /\ at = "poll" /\ meddled = {} =>
       \A k \in 1..sel.npolls : k >= i => events[k] \notin ToSet(s)
  /\ at = "expire" => due \cap ToSet(s) = {}
  /\ at \in {"poll", "expire"} => ToSet(s) \cap ObjectEvents = {}

ListsInv == IInv /\ MarksSound /\ \E s, o \in Seq(Events) : ListsSound(s, o)

LEMMA LinksNil ==
  ASSUME NEW E, NEW s, Links(E, s, Nil)
  PROVE  s = <<>> /\ ToSet(s) = {}
<1>1. s # <<>> => s[1] \in Events
  <2>1. s # <<>> => 1 \in 1..Len(s)
    BY LinksFits DEF Links
  <2> QED
    BY <2>1, LinksFits DEF Links
<1>2. s = <<>>
  BY <1>1, FiniteEvents DEF Links
<1> QED
  BY <1>2, EmptyAsSet

LEMMA LinksNothing == ASSUME NEW E PROVE Links(E, <<>>, Nil)
<1>1. <<>> \in Seq(Events) /\ Len(<<>>) = 0 /\ 1..0 = {}
  OBVIOUS
<1> QED
  BY <1>1, EmptyAsSet DEF Links

LEMMA FreshIs == /\ ~Fresh.active /\ ~Fresh.known /\ ~Fresh.evq /\ ~Fresh.delete /\ ~Fresh.expired
                 /\ Fresh.tq = "none" /\ Fresh.next = Nil
BY DEF Fresh

LEMMA InitLists == Init => ListsInv
<1> SUFFICES ASSUME Init PROVE ListsInv
  OBVIOUS
<1>1. \A e \in Events : ev[e] = Fresh
  BY DEF Init
<1>2. MarksSound
  BY <1>1, FreshIs DEF Init, MarksSound
<1>3. ListsSound(<<>>, <<>>)
  BY <1>1, FreshIs, LinksNothing, EmptyAsSet DEF Init, ListsSound
<1>4. <<>> \in Seq(Events)
  OBVIOUS
<1> QED
  BY <1>2, <1>3, <1>4, InitHolds DEF ListsInv

-----------------------------------------------------------------------------
(* Steps that leave the lists alone *)

LEMMA ListsKept ==
  ASSUME IInv, IInv', NEW s, NEW o, ListsSound(s, o), UNCHANGED <<list, object_events, abandoned>>,
         \A e \in Events : /\ ev'[e].active = ev[e].active
                           /\ ev[e].active => ev'[e].next = ev[e].next,
         at' \in {"poll", "expire"} =>
           list = Nil \/ (at' = at /\ i' >= i /\ UNCHANGED <<events, sel, due, meddled>>)
  PROVE  ListsSound(s, o)'
<1>1. Links(ev, s, list)' /\ Links(ev, o, object_events)'
  <2>1. \A e \in ToSet(s) \cup ToSet(o) : ev'[e].next = ev[e].next
    BY DEF ListsSound
  <2>2. Links(ev', s, list) /\ Links(ev', o, object_events)
    BY <2>1, LinksSame DEF ListsSound
  <2> QED
    BY <2>2
<1>2. {e \in Events : ev'[e].active} = ToSet(s) \cup ToSet(o) \cup abandoned'
  BY DEF ListsSound
<1>3. /\ at' = "poll" /\ meddled' = {} =>
           \A k \in 1..sel'.npolls : k >= i' => events'[k] \notin ToSet(s)
      /\ at' = "expire" => due' \cap ToSet(s) = {}
      /\ at' \in {"poll", "expire"} => ToSet(s) \cap ObjectEvents = {}
  <2>1. CASE list = Nil
    BY <2>1, LinksNil DEF ListsSound
  <2>2. CASE at' = at /\ i' >= i /\ UNCHANGED <<events, sel, due, meddled>>
    <3>1. i \in Nat /\ i' \in Nat /\ sel.npolls \in Nat
      BY DEF IInv, TypeOK
    <3>2. \A k \in 1..sel.npolls : k >= i' => k >= i
      BY <2>2, <3>1
    <3> QED
      BY <2>2, <3>2 DEF ListsSound
  <2>3. CASE at' \notin {"poll", "expire"}
    BY <2>3
  <2> QED
    BY <2>1, <2>2, <2>3
<1> QED
  BY <1>1, <1>2, <1>3 DEF ListsSound

(* Steps that leave the events alone. *)
LEMMA StillLists ==
  ASSUME IInv, IInv', MarksSound, NEW s, NEW o, ListsSound(s, o),
         UNCHANGED <<ev, list, object_events, abandoned>>,
         at' \notin Holding => list = Nil,
         at' = "expire" => due' \subseteq Finite,
         at' \in {"poll", "expire"} =>
           list = Nil \/ (at' = at /\ i' >= i /\ UNCHANGED <<events, sel, due, meddled>>)
  PROVE  MarksSound' /\ ListsSound(s, o)'
<1>1. ListsSound(s, o)'
  BY ListsKept
<1>2. MarksSound'
  BY DEF MarksSound, Finite
<1> QED
  BY <1>1, <1>2

LEMMA QuietCallsList ==
  ASSUME IInv, IInv', MarksSound, NEW s, NEW o, ListsSound(s, o),
         Interrupt \/ Stop \/ TriggerHangs \/ LoopBegins \/ LoopEnds
  PROVE  MarksSound' /\ ListsSound(s, o)'
<1>1. /\ UNCHANGED <<ev, list, object_events, abandoned>>
      /\ at' \notin {"poll", "expire"} /\ (at' \notin Holding => at \notin Holding)
  BY DEF Interrupt, Stop, TriggerHangs, LoopBegins, LoopEnds, queue, VmFree, InSelect, Holding
<1> QED
  BY <1>1, StillLists DEF MarksSound

LEMMA SelectLists ==
  ASSUME IInv, IInv', MarksSound, NEW s, NEW o, ListsSound(s, o),
         \/ \E limit \in Limits : EnterSelect(limit)
         \/ \E fds \in SUBSET FdEvents : SelectFinds(fds)
         \/ SelectTimesOut \/ SelectIsInterrupted
  PROVE  MarksSound' /\ ListsSound(s, o)'
<1>1. /\ UNCHANGED <<ev, list, object_events, abandoned>>
      /\ at \notin Holding /\ at' \notin {"poll", "expire"}
  BY DEF EnterSelect, SelectFinds, SelectTimesOut, SelectIsInterrupted, queue, Holding
<1> QED
  BY <1>1, StillLists DEF MarksSound

LEMMA ResumeLists ==
  ASSUME IInv, IInv', MarksSound, NEW s, NEW o, ListsSound(s, o), Resume
  PROVE  MarksSound' /\ ListsSound(s, o)'
<1>1. /\ at \notin Holding /\ at' \in Holding /\ list = Nil /\ list' = list
      /\ UNCHANGED <<ev, object_events, abandoned>>
  BY DEF Resume, Holding, MarksSound, queue
<1>2. due' \subseteq Finite
  BY DEF Resume, MayBeDue
<1> QED
  BY <1>1, <1>2, StillLists

LEMMA ScanPassesLists ==
  ASSUME IInv, IInv', MarksSound, NEW s, NEW o, ListsSound(s, o),
         ScanPasses \/ ScanBreaks \/ ScanEnds \/ ExpireEnds \/ LoopTimesOut
  PROVE  MarksSound' /\ ListsSound(s, o)'
<1>1. /\ UNCHANGED <<ev, list, object_events, abandoned>>
      /\ at' \notin Holding => list = Nil
      /\ at' # "expire"
      /\ at' = "poll" => at = "poll" /\ i' = i + 1 /\ UNCHANGED <<events, sel, due, meddled>>
  BY DEF ScanPasses, ScanBreaks, ScanEnds, Scanning, ExpireEnds, LoopTimesOut, queue, polling,
         Holding
<1>2. i \in Nat
  BY DEF IInv, TypeOK
<1>3. at' = "poll" => i' >= i
  BY <1>1, <1>2
<1> QED
  BY <1>1, <1>3, StillLists

LEMMA QuietLoopLists ==
  ASSUME IInv, IInv', MarksSound, NEW s, NEW o, ListsSound(s, o),
         InterruptReturns \/ ListEnds \/ Call
  PROVE  MarksSound' /\ ListsSound(s, o)'
<1>1. /\ UNCHANGED <<ev, list, object_events, abandoned>>
      /\ at' \notin Holding => list = Nil
      /\ at' \notin {"poll", "expire"}
  BY DEF InterruptReturns, ListEnds, Call, queue, Holding, MarksSound
<1> QED
  BY <1>1, StillLists

(* A call that changes one event, which keeps its links as long as it is in a list. *)
LEMMA OneEventLists ==
  ASSUME IInv, IInv', MarksSound, NEW s, NEW o, ListsSound(s, o), NEW e \in Events, VmFree,
         \A x \in Events \ {e} : /\ ev'[x].active = ev[x].active /\ ev'[x].next = ev[x].next
                                 /\ ev'[x].known = ev[x].known /\ ev'[x].tq = ev[x].tq
                                 /\ ev'[x].evq = ev[x].evq,
         ev'[e].active = ev[e].active, ev[e].active => ev'[e].next = ev[e].next,
         ev'[e].active => ev'[e].known,
         ev'[e].tq # "none" => ev'[e].evq, ev'[e].tq = "finite" => e \in Deadlines,
         UNCHANGED <<at, list, object_events, abandoned>>
  PROVE  MarksSound' /\ ListsSound(s, o)'
<1>1. at' \notin {"poll", "expire"}
  BY DEF VmFree, InSelect
<1>2. ListsSound(s, o)'
  BY <1>1, ListsKept
<1>3. MarksSound'
  BY <1>1 DEF MarksSound, Holding
<1> QED
  BY <1>2, <1>3

-----------------------------------------------------------------------------
(* Calls that change one event *)

(* Same but for what the array needs. *)
Alike(f, g) == /\ f.active = g.active /\ f.next = g.next /\ f.known = g.known
               /\ f.delete = g.delete /\ f.evq = g.evq /\ f.tq = g.tq /\ f.wants = g.wants

LEMMA evq_delAlike ==
  ASSUME NEW e \in FdEvents, NEW evs \in [Events -> Event], evq_del(e, evs)
  PROVE  /\ \A x \in Events \ {e} : Alike(ev'[x], evs[x])
         /\ ev'[e].active = evs[e].active /\ ev'[e].next = evs[e].next
         /\ ev'[e].known = evs[e].known /\ ev'[e].delete = evs[e].delete
         /\ ~ev'[e].evq /\ ev'[e].tq = "none"
<1>0. e \in Events
  BY DEF Events
<1> DEFINE k == ev[e].index
           moved == events[npolls]
           r(x) == [evs[x] EXCEPT !.evq = FALSE, !.tq = "none"]
<1>1. \A x \in Events : evs[x] \in Event
  OBVIOUS
<1>2. CASE k < npolls
  <2>1. ev' = [evs EXCEPT ![moved].index = k, ![e].evq = FALSE, ![e].tq = "none"]
    BY <1>2 DEF evq_del
  <2> HIDE DEF k, moved
  <2> DEFINE a == [evs EXCEPT ![moved].index = k]
  <2>2. \A x \in Events : Alike(a[x], evs[x])
    BY DEF Alike, Event
  <2>3. \A x \in Events : a[x] = evs[x] \/ a[x] = [evs[x] EXCEPT !.index = k]
    OBVIOUS
  <2>4. DOMAIN a = Events
    OBVIOUS
  <2>5. ev' = [a EXCEPT ![e] = [a[e] EXCEPT !.evq = FALSE, !.tq = "none"]]
    BY <2>1, <1>0
  <2> HIDE DEF a
  <2>6. \A x \in Events \ {e} : ev'[x] = a[x]
    BY <2>4, <2>5
  <2>7. ev'[e] = [a[e] EXCEPT !.evq = FALSE, !.tq = "none"]
    BY <2>4, <2>5, <1>0
  <2>8. ev'[e].active = a[e].active /\ ev'[e].next = a[e].next /\ ev'[e].known = a[e].known
        /\ ev'[e].delete = a[e].delete /\ ~ev'[e].evq /\ ev'[e].tq = "none"
    BY <2>3, <2>7, <1>0, <1>1 DEF Event
  <2> QED
    BY <2>2, <2>6, <2>8, <1>0 DEF Alike
<1>3. CASE ~(k < npolls)
  <2>1. ev' = [evs EXCEPT ![e].evq = FALSE, ![e].tq = "none"]
    BY <1>3 DEF evq_del
  <2>2. ev' = [evs EXCEPT ![e] = [evs[e] EXCEPT !.evq = FALSE, !.tq = "none"]]
    BY <2>1, <1>0
  <2>3. \A x \in Events \ {e} : ev'[x] = evs[x]
    BY <2>2
  <2>4. ev'[e].active = evs[e].active /\ ev'[e].next = evs[e].next /\ ev'[e].known = evs[e].known
        /\ ev'[e].delete = evs[e].delete /\ ~ev'[e].evq /\ ev'[e].tq = "none"
    BY <2>2, <1>0, <1>1 DEF Event
  <2> QED
    BY <2>3, <2>4 DEF Alike
<1> QED
  BY <1>2, <1>3

LEMMA DelIs ==
  ASSUME IInv, MarksSound, NEW e \in Events, Del(e)
  PROVE  /\ VmFree /\ ev[e].known /\ UNCHANGED <<at, list, object_events, abandoned>>
         /\ \A x \in Events \ {e} : Alike(ev'[x], ev[x])
         /\ ev'[e].active = ev[e].active /\ ~ev'[e].evq /\ ev'[e].tq = "none"
         /\ ev[e].active => ev'[e].next = ev[e].next /\ ev'[e].known /\ ev'[e].delete
         /\ ~ev[e].active => ~ev'[e].known
<1>1. VmFree /\ ev[e].known /\ UNCHANGED <<at, list, object_events, abandoned>>
  BY DEF Del
<1>2. Leaves(e) \in [Events -> Event] /\ (\A x \in Events \ {e} : Leaves(e)[x] = ev[x])
  BY LeavesIsEvent
<1>3. /\ Leaves(e)[e].active = ev[e].active
      /\ ev[e].active => /\ Leaves(e)[e].next = ev[e].next /\ Leaves(e)[e].known
                         /\ Leaves(e)[e].delete /\ Leaves(e)[e].evq = ev[e].evq
                         /\ Leaves(e)[e].tq = ev[e].tq
      /\ ~ev[e].active => Leaves(e)[e] = Fresh
  <2>1. ev \in [Events -> Event] /\ ev[e] \in Event
    BY Bases
  <2>2. CASE ev[e].active
    <3>1. Leaves(e)[e] = [ev[e] EXCEPT !.delete = TRUE]
      BY <2>1, <2>2 DEF Leaves
    <3>2. ASSUME NEW q \in Event, NEW f, f = [q EXCEPT !.delete = TRUE]
          PROVE  /\ f.active = q.active /\ f.next = q.next /\ f.known = q.known /\ f.delete
                 /\ f.evq = q.evq /\ f.tq = q.tq
      BY <3>2 DEF Event
    <3>3. /\ Leaves(e)[e].active = ev[e].active /\ Leaves(e)[e].next = ev[e].next
          /\ Leaves(e)[e].known = ev[e].known /\ Leaves(e)[e].delete
          /\ Leaves(e)[e].evq = ev[e].evq /\ Leaves(e)[e].tq = ev[e].tq
      BY <2>1, <3>1, <3>2
    <3> QED
      BY <2>2, <3>3, <1>1
  <2>3. CASE ~ev[e].active
    <3>1. Leaves(e)[e] = Fresh
      BY <2>1, <2>3 DEF Leaves
    <3>2. Fresh.active = FALSE /\ ev[e].active = FALSE
      BY <2>1, <2>3 DEF Event, Fresh
    <3> QED
      BY <2>3, <3>1, <3>2
  <2> QED
    BY <2>2, <2>3
<1>4. CASE ~ev[e].evq
  <2>1. ev' = Leaves(e)
    BY <1>4 DEF Del
  <2>2. ev[e].tq = "none"
    BY <1>4 DEF MarksSound
  <2> QED
    BY <2>1, <2>2, <1>1, <1>2, <1>3, <1>4, FreshIs DEF Alike
<1>5. CASE ev[e].evq /\ e \in FdEvents
  <2>1. evq_del(e, Leaves(e))
    BY <1>5 DEF Del
  <2>2. /\ \A x \in Events \ {e} : Alike(ev'[x], Leaves(e)[x])
        /\ ev'[e].active = Leaves(e)[e].active /\ ev'[e].next = Leaves(e)[e].next
        /\ ev'[e].known = Leaves(e)[e].known /\ ev'[e].delete = Leaves(e)[e].delete
        /\ ~ev'[e].evq /\ ev'[e].tq = "none"
    BY <2>1, <1>2, <1>5, evq_delAlike
  <2> QED
    BY <2>2, <1>1, <1>2, <1>3, FreshIs
<1>6. CASE ev[e].evq /\ e \notin FdEvents
  <2>1. ev' = [Leaves(e) EXCEPT ![e].evq = FALSE, ![e].tq = "none"]
    BY <1>6 DEF Del, evq_del_timer
  <2>2. ev' = [Leaves(e) EXCEPT ![e] = [Leaves(e)[e] EXCEPT !.evq = FALSE, !.tq = "none"]]
    BY <2>1, <1>2
  <2> DEFINE L == Leaves(e)
  <2>3. L \in [Events -> Event] /\ L[e] \in Event
    BY <1>2
  <2> HIDE DEF L
  <2>4. ev' = [L EXCEPT ![e] = [L[e] EXCEPT !.evq = FALSE, !.tq = "none"]]
    BY <2>2 DEF L
  <2>5. (\A x \in Events \ {e} : ev'[x] = L[x]) /\ ev'[e] = [L[e] EXCEPT !.evq = FALSE, !.tq = "none"]
    BY <2>3, <2>4
  <2>6. ev'[e].active = L[e].active /\ ev'[e].next = L[e].next /\ ev'[e].known = L[e].known
        /\ ev'[e].delete = L[e].delete /\ ~ev'[e].evq /\ ev'[e].tq = "none"
    BY <2>3, <2>5 DEF Event
  <2> QED
    BY <2>5, <2>6, <1>1, <1>2, <1>3, FreshIs DEF L, Alike
<1> QED
  BY <1>4, <1>5, <1>6

LEMMA DelLists ==
  ASSUME IInv, IInv', MarksSound, NEW s, NEW o, ListsSound(s, o), NEW e \in Events, Del(e)
  PROVE  MarksSound' /\ ListsSound(s, o)'
BY DelIs, OneEventLists DEF Alike

LEMMA AddIs ==
  ASSUME IInv, NEW e \in Events, NEW msec \in {"none", "finite", "infinite"}, Add(e, msec)
  PROVE  /\ VmFree /\ ~ev[e].known /\ UNCHANGED <<at, list, object_events, abandoned>>
         /\ \A x \in Events \ {e} : ev'[x] = ev[x]
         /\ ~ev'[e].active /\ ev'[e].known /\ ev'[e].evq /\ ~ev'[e].delete
         /\ ev'[e].tq = "finite" => e \in Deadlines
<1> DEFINE f == [Fresh EXCEPT !.known = TRUE, !.evq = TRUE, !.tq = msec,
                              !.index = IF e \in FdEvents THEN npolls + 1 ELSE 0]
<1>1. /\ VmFree /\ ~ev[e].known /\ ev' = [ev EXCEPT ![e] = f] /\ msec \in Timeouts(e)
      /\ UNCHANGED <<at, list, object_events, abandoned>>
  BY DEF Add
<1>2. ~f.active /\ f.known /\ f.evq /\ ~f.delete /\ f.tq = msec
  BY DEF Fresh
<1>3. msec = "finite" => e \in Deadlines
  BY <1>1 DEF Timeouts
<1> HIDE DEF f
<1>4. ev'[e] = f /\ \A x \in Events \ {e} : ev'[x] = ev[x]
  BY <1>1, Bases
<1> QED
  BY <1>1, <1>2, <1>3, <1>4

LEMMA AddLists ==
  ASSUME IInv, IInv', MarksSound, NEW s, NEW o, ListsSound(s, o), NEW e \in Events,
         NEW msec \in {"none", "finite", "infinite"}, Add(e, msec)
  PROVE  MarksSound' /\ ListsSound(s, o)'
<1>1. ev[e] \in Event /\ ev'[e] \in Event
  BY Bases DEF IInv, TypeOK
<1>2. ev[e].active = FALSE /\ ev'[e].active = FALSE
  BY <1>1, AddIs DEF MarksSound, Event
<1> QED
  BY <1>2, AddIs, OneEventLists

LEMMA TimedIs ==
  ASSUME IInv, NEW e \in Events,
         Change(e) \/ \E msec \in {"none", "finite", "infinite"} : SetTimeout(e, msec)
  PROVE  /\ VmFree /\ UNCHANGED <<at, list, object_events, abandoned>>
         /\ \A x \in Events \ {e} : ev'[x] = ev[x]
         /\ ev'[e].active = ev[e].active /\ ev'[e].next = ev[e].next
         /\ ev'[e].known = ev[e].known /\ ev'[e].delete = ev[e].delete /\ ev'[e].evq /\ ev[e].evq
         /\ ev'[e].tq = ev[e].tq \/ (ev'[e].tq = "finite" => e \in Deadlines)
<1>1. ev \in [Events -> Event] /\ ev[e] \in Event
  BY Bases
<1>2. CASE Change(e)
  <2>1. /\ VmFree /\ ev[e].evq /\ UNCHANGED <<at, list, object_events, abandoned>>
        /\ ev' = [ev EXCEPT ![e] = [ev[e] EXCEPT !.wants = ~ev[e].wants]]
    BY <1>1, <1>2 DEF Change, queue
  <2>2. (\A x \in Events \ {e} : ev'[x] = ev[x]) /\ ev'[e] = [ev[e] EXCEPT !.wants = ~ev[e].wants]
    BY <1>1, <2>1
  <2> QED
    BY <1>1, <2>1, <2>2 DEF Event
<1>3. ASSUME NEW msec \in {"none", "finite", "infinite"}, SetTimeout(e, msec)
      PROVE  /\ VmFree /\ UNCHANGED <<at, list, object_events, abandoned>>
             /\ \A x \in Events \ {e} : ev'[x] = ev[x]
             /\ ev'[e].active = ev[e].active /\ ev'[e].next = ev[e].next
             /\ ev'[e].known = ev[e].known /\ ev'[e].delete = ev[e].delete /\ ev'[e].evq /\ ev[e].evq
             /\ ev'[e].tq = "finite" => e \in Deadlines
  <2>1. /\ VmFree /\ ev[e].evq /\ UNCHANGED <<at, list, object_events, abandoned>>
        /\ ev' = [ev EXCEPT ![e] = [ev[e] EXCEPT !.tq = msec]]
        /\ msec = "finite" => e \in Deadlines
    BY <1>1, <1>3 DEF SetTimeout, queue, Timeouts
  <2>2. (\A x \in Events \ {e} : ev'[x] = ev[x]) /\ ev'[e] = [ev[e] EXCEPT !.tq = msec]
    BY <1>1, <2>1
  <2> QED
    BY <1>1, <2>1, <2>2 DEF Event
<1> QED
  BY <1>2, <1>3

LEMMA TimedLists ==
  ASSUME IInv, IInv', MarksSound, NEW s, NEW o, ListsSound(s, o), NEW e \in Events,
         Change(e) \/ \E msec \in {"none", "finite", "infinite"} : SetTimeout(e, msec)
  PROVE  MarksSound' /\ ListsSound(s, o)'
BY TimedIs, OneEventLists DEF MarksSound

-----------------------------------------------------------------------------
(* Events that are triggered *)

LEMMA PushedIs ==
  ASSUME IInv
  PROVE  /\ \A x \in Events \ ToSet(watching) : Pushed(ev)[x] = ev[x]
         /\ \A x \in ToSet(watching) : /\ Pushed(ev)[x].active /\ Pushed(ev)[x].tq = ev[x].tq
                                       /\ Pushed(ev)[x].known = ev[x].known
                                       /\ Pushed(ev)[x].delete = ev[x].delete
                                       /\ Pushed(ev)[x].evq = ev[x].evq
         /\ \A k \in 1..Len(watching) :
              Pushed(ev)[watching[k]].next = IF k = 1 THEN object_events ELSE watching[k - 1]
<1>1. /\ watching \in Seq(Events) /\ IsInjective(watching) /\ DOMAIN watching = 1..Len(watching)
      /\ \A k \in 1..Len(watching) : watching[k] \in Events
  <2>1. watching \in Seq(ObjectEvents) /\ ObjectEvents \subseteq Events
    BY Bases DEF IInv, TypeOK
  <2>2. watching \in Seq(Events)
    BY <2>1
  <2> QED
    BY <2>2, LinksFits DEF IInv, WatchingSound
<1>2. \A x \in Events \ ToSet(watching) : Pushed(ev)[x] = ev[x]
  BY DEF Pushed, ToSet
<1>3. ASSUME NEW k \in 1..Len(watching)
      PROVE  Pushed(ev)[watching[k]] =
               [ev[watching[k]] EXCEPT !.active = TRUE,
                  !.next = IF k = 1 THEN object_events ELSE watching[k - 1]]
  <2> DEFINE x == watching[k]
             ks == {j \in DOMAIN watching : watching[j] = x}
             c == CHOOSE j \in ks : TRUE
  <2>1. ks = {k}
    BY <1>1 DEF IsInjective
  <2>2. c = k
    BY <2>1
  <2>3. Pushed(ev)[x] = IF ks = {} THEN ev[x]
                        ELSE [ev[x] EXCEPT !.active = TRUE,
                                !.next = IF c = 1 THEN object_events ELSE watching[c - 1]]
    BY <1>1 DEF Pushed
  <2> HIDE DEF ks, c, x
  <2>4. Pushed(ev)[x] = [ev[x] EXCEPT !.active = TRUE,
                           !.next = IF k = 1 THEN object_events ELSE watching[k - 1]]
    BY <2>1, <2>2, <2>3
  <2> QED
    BY <2>4 DEF x
<1>4. ASSUME NEW k \in 1..Len(watching)
      PROVE  LET x == watching[k]
             IN  /\ Pushed(ev)[x].active /\ Pushed(ev)[x].tq = ev[x].tq
                 /\ Pushed(ev)[x].known = ev[x].known /\ Pushed(ev)[x].delete = ev[x].delete
                 /\ Pushed(ev)[x].evq = ev[x].evq
                 /\ Pushed(ev)[x].next = IF k = 1 THEN object_events ELSE watching[k - 1]
  <2> DEFINE n == IF k = 1 THEN object_events ELSE watching[k - 1]
             x == watching[k]
  <2>1. Pushed(ev)[x] = [ev[x] EXCEPT !.active = TRUE, !.next = n] /\ ev[x] \in Event
    BY <1>1, <1>3, Bases
  <2> HIDE DEF n, x
  <2>2. /\ Pushed(ev)[x].active /\ Pushed(ev)[x].tq = ev[x].tq
        /\ Pushed(ev)[x].known = ev[x].known /\ Pushed(ev)[x].delete = ev[x].delete
        /\ Pushed(ev)[x].evq = ev[x].evq /\ Pushed(ev)[x].next = n
    BY <2>1 DEF Event
  <2> QED
    BY <2>2 DEF n, x
<1>5. ASSUME NEW x \in ToSet(watching) PROVE \E k \in 1..Len(watching) : x = watching[k]
  BY <1>1 DEF ToSet
<1>6. \A x \in ToSet(watching) : /\ Pushed(ev)[x].active /\ Pushed(ev)[x].tq = ev[x].tq
                                 /\ Pushed(ev)[x].known = ev[x].known
                                 /\ Pushed(ev)[x].delete = ev[x].delete
                                 /\ Pushed(ev)[x].evq = ev[x].evq
  BY <1>4, <1>5
<1> QED
  BY <1>2, <1>4, <1>6

LEMMA TriggerIs ==
  ASSUME IInv, MarksSound, Trigger \/ TriggerEnd
  PROVE  /\ VmFree /\ watching # <<>> /\ ToSet(watching) \subseteq ObjectEvents
         /\ \A x \in ToSet(watching) : ~ev[x].active
         /\ object_events' = watching[Len(watching)] /\ UNCHANGED <<at, list, abandoned>>
         /\ \A x \in Events \ ToSet(watching) : ev'[x] = ev[x]
         /\ \A x \in ToSet(watching) : /\ ev'[x].active /\ ev'[x].known /\ ev[x].known
                                       /\ ~ev'[x].delete /\ ~ev[x].delete
                                       /\ ev'[x].tq # "none" => ev'[x].evq /\ ev'[x].tq = ev[x].tq
         /\ \A k \in 1..Len(watching) :
              ev'[watching[k]].next = IF k = 1 THEN object_events ELSE watching[k - 1]
<1>1. /\ CanTrigger /\ object_events' = watching[Len(watching)]
      /\ UNCHANGED <<at, list, abandoned>>
  BY DEF Trigger, TriggerEnd
<1>2. /\ VmFree /\ watching # <<>> /\ ToSet(watching) \subseteq ObjectEvents
      /\ \A x \in ToSet(watching) : ~ev[x].active /\ ev[x].evq
      /\ \A k \in 1..Len(watching) : watching[k] \in ToSet(watching)
  <2>1. watching \in Seq(ObjectEvents) /\ DOMAIN watching = 1..Len(watching)
    BY LenProperties DEF IInv, TypeOK
  <2> QED
    BY <1>1, <2>1 DEF CanTrigger, IInv, WatchingSound, ToSet
<1>3. \A x \in ToSet(watching) : x \in Events /\ ev[x].known /\ ~ev[x].delete
  BY <1>2, Bases DEF IInv, FlagsSound
<1>4. CASE Trigger
  <2>1. ev' = Pushed(ev)
    BY <1>4 DEF Trigger
  <2> QED
    BY <2>1, <1>1, <1>2, <1>3, PushedIs
<1>5. CASE TriggerEnd
  <2>1. ev' = [e \in Events |-> IF e \in ToSet(watching)
                             THEN [Pushed(ev)[e] EXCEPT !.evq = FALSE, !.tq = "none"] ELSE ev[e]]
    BY <1>5 DEF TriggerEnd
  <2>2. ASSUME NEW x \in ToSet(watching)
        PROVE  /\ ev'[x].active = Pushed(ev)[x].active /\ ev'[x].known = Pushed(ev)[x].known
               /\ ev'[x].delete = Pushed(ev)[x].delete /\ ev'[x].next = Pushed(ev)[x].next
               /\ ev'[x].tq = "none"
    <3>1. ev'[x] = [Pushed(ev)[x] EXCEPT !.evq = FALSE, !.tq = "none"]
      BY <2>1, <1>3
    <3>2. Pushed(ev)[x] \in Event
      BY <1>3, PushedIsEvent
    <3> QED
      BY <3>1, <3>2 DEF Event
  <2>3. \A x \in Events \ ToSet(watching) : ev'[x] = ev[x]
    BY <2>1
  <2> QED
    BY <2>2, <2>3, <1>1, <1>2, <1>3, PushedIs
<1> QED
  BY <1>4, <1>5

LEMMA TriggerLists ==
  ASSUME IInv, IInv', MarksSound, NEW s, NEW o, ListsSound(s, o), Trigger \/ TriggerEnd
  PROVE  MarksSound' /\ \E r \in Seq(Events) : /\ ListsSound(s, r)'
                                              /\ ToSet(r) = ToSet(o) \cup ToSet(watching)
<1> DEFINE W == ToSet(watching)
<1>1. /\ VmFree /\ watching # <<>> /\ W \subseteq ObjectEvents
      /\ \A x \in W : ~ev[x].active
      /\ object_events' = watching[Len(watching)] /\ UNCHANGED <<at, list, abandoned>>
      /\ \A x \in Events \ W : ev'[x] = ev[x]
      /\ \A x \in W : ev'[x].active /\ ev'[x].known
                       /\ (ev'[x].tq # "none" => ev'[x].evq /\ ev'[x].tq = ev[x].tq)
      /\ \A k \in 1..Len(watching) :
              ev'[watching[k]].next = IF k = 1 THEN object_events ELSE watching[k - 1]
  <2>1. /\ VmFree /\ watching # <<>> /\ W \subseteq ObjectEvents
        /\ object_events' = watching[Len(watching)] /\ UNCHANGED <<at, list, abandoned>>
    BY TriggerIs
  <2>2. \A x \in W : ~ev[x].active
    BY TriggerIs
  <2>3. \A x \in Events \ W : ev'[x] = ev[x]
    BY TriggerIs
  <2>4. \A x \in W : ev'[x].active /\ ev'[x].known
                       /\ (ev'[x].tq # "none" => ev'[x].evq /\ ev'[x].tq = ev[x].tq)
    BY TriggerIs
  <2>5. \A k \in 1..Len(watching) :
              ev'[watching[k]].next = IF k = 1 THEN object_events ELSE watching[k - 1]
    BY TriggerIs
  <2> QED
    BY <2>1, <2>2, <2>3, <2>4, <2>5
<1>2. W \cap (ToSet(s) \cup ToSet(o) \cup abandoned) = {} /\ W \subseteq Events
      /\ ToSet(s) \cup ToSet(o) \cup abandoned \subseteq Events
  BY <1>1, Bases DEF ListsSound
<1>3. watching \in Seq(Events) /\ IsInjective(watching)
  <2>1. watching \in Seq(ObjectEvents) /\ ObjectEvents \subseteq Events
    BY Bases DEF IInv, TypeOK
  <2> QED
    BY <2>1 DEF IInv, WatchingSound
<1>4. PICK r \in Seq(Events) : Links(ev', r, watching[Len(watching)]) /\ ToSet(r) = W \cup ToSet(o)
  <2>1. SameLinks(ev, ev', ToSet(o))
    BY <1>1, <1>2 DEF SameLinks
  <2>2. Links(ev, o, object_events) /\ W \cap ToSet(o) = {}
    BY <1>2 DEF ListsSound
  <2>3. ev' \in [Events -> Event]
    BY DEF IInv, TypeOK
  <2>4. Pushes(ev', watching, object_events)
    BY <1>1 DEF Pushes
  <2> QED
    BY <2>1, <2>2, <2>4, <1>1, <1>3, LinksPush
<1>5. Links(ev', s, list)
  <2>1. \A x \in ToSet(s) : ev'[x].next = ev[x].next
    BY <1>1, <1>2
  <2> QED
    BY <2>1, LinksSame DEF ListsSound
<1>6. {e \in Events : ev'[e].active} = ToSet(s) \cup ToSet(r) \cup abandoned
  <2>1. {e \in Events : ev'[e].active} = {e \in Events : ev[e].active} \cup W
    BY <1>1, <1>2
  <2> QED
    BY <2>1, <1>4 DEF ListsSound
<1>7. at' \notin {"poll", "expire"}
  BY <1>1 DEF VmFree, InSelect
<1>8. ListsSound(s, r)'
  BY <1>1, <1>2, <1>4, <1>5, <1>6, <1>7 DEF ListsSound
<1>9. MarksSound'
  BY <1>1, <1>7 DEF MarksSound
<1> QED
  BY <1>4, <1>8, <1>9

-----------------------------------------------------------------------------
(* Events that the scan finds and timers that have expired *)

LEMMA Indexed ==
  ASSUME IInv, NEW e \in FdEvents, ev[e].evq
  PROVE  ev[e].index \in 1..npolls /\ events[ev[e].index] = e
<1>1. PICK k \in 1..npolls : events[k] = e
  BY DEF IInv, PollsAreKnown
<1>2. ev[e].index = k
  BY <1>1 DEF IInv, PollsAreKnown
<1> QED
  BY <1>1, <1>2

LEMMA ListedIs ==
  ASSUME IInv, NEW e \in Events
  PROVE  /\ Listed(e)[e].active /\ Listed(e)[e].next = list
         /\ Listed(e)[e].known = ev[e].known /\ Listed(e)[e].delete = ev[e].delete
         /\ Listed(e)[e].evq = ev[e].evq /\ Listed(e)[e].tq = ev[e].tq
<1> DEFINE r == [ev[e] EXCEPT !.active = TRUE, !.next = list]
<1>1. Listed(e)[e] = r /\ ev[e] \in Event
  BY Bases DEF Listed
<1>2. /\ r.active /\ r.next = list /\ r.known = ev[e].known /\ r.delete = ev[e].delete
      /\ r.evq = ev[e].evq /\ r.tq = ev[e].tq
  BY <1>1 DEF Event
<1> QED
  BY <1>1, <1>2

LEMMA ScanFindsIs ==
  ASSUME IInv, MarksSound, ScanFinds, NEW e, e = events[i]
  PROVE  /\ e \in FdEvents /\ e \in Events /\ ev[e].known /\ ~ev[e].delete
         /\ ev[e].wants /\ e \in hit
         /\ at = "poll" /\ i \in 1..sel.npolls /\ left > 0
         /\ i' = i + 1 /\ left' = left - 1 /\ list' = e /\ abandoned' = abandoned \ {e}
         /\ e \notin Members(list)
         /\ UNCHANGED <<object_events, at, sel, hit, meddled, due>>
         /\ \A x \in Events \ {e} : Alike(ev'[x], ev[x])
         /\ ev'[e].active /\ ev'[e].next = list /\ ev'[e].known /\ ~ev'[e].delete
         /\ ev'[e].tq # "none" => ev'[e].evq /\ ev'[e].tq = ev[e].tq
         /\ \A k \in 1..sel.npolls : events'[k] = events[k] \/ events[k] = e
         /\ meddled = {} => \A k \in 1..sel.npolls :
              k >= i + 1 => k >= i /\ events'[k] = events[k] /\ events[k] # e
<1>1. /\ at = "poll" /\ i <= sel.npolls /\ left > 0 /\ ev[e].wants /\ e \in hit
      /\ ev[e].evq /\ e \notin Members(list)
      /\ list' = e /\ abandoned' = abandoned \ {e} /\ i' = i + 1 /\ left' = left - 1
      /\ e \in OneShot => evq_del(e, Listed(e))
      /\ e \notin OneShot => ev' = Listed(e) /\ events' = events
      /\ UNCHANGED <<object_events, at, sel, hit, meddled, due, watching>>
  BY DEF ScanFinds, Scanning, Found, Astray, polling
<1>2. i \in 1..sel.npolls /\ sel.npolls \in Nat /\ sel.npolls <= N /\ i \in Nat
  BY <1>1 DEF IInv, TypeOK, ScanSound
<1>3. e \in FdEvents
  BY <1>1, <1>2, FoundIsKnown
<1>4. e \in Events /\ ev[e].known /\ ~ev[e].delete
  BY <1>1, <1>3, Bases DEF IInv, FlagsSound
<1>5. /\ Listed(e) \in [Events -> Event] /\ \A x \in Events \ {e} : Listed(e)[x] = ev[x]
  BY <1>4, ListedIsEvent
<1>6. ASSUME meddled = {}, NEW k \in 1..sel.npolls, k >= i + 1
      PROVE  k >= i /\ k # i /\ k # ev[e].index /\ events[k] # e
  <2>1. Unscanned(i)
    BY <1>1, <1>2, <1>6 DEF IInv, ScanSound, ScanInStep
  <2>2. ev[e].index <= i /\ ev[e].index \in Nat /\ \A j \in 1..sel.npolls : j >= i /\ events[j] = e => j = i
    BY <2>1, <1>4, Bases DEF Unscanned, Event
  <2>3. k >= i /\ k # i /\ k # ev[e].index
    BY <1>2, <1>6, <2>2
  <2> QED
    BY <2>2, <2>3
<1>7. \A k \in 1..sel.npolls : k \in 1..N
  BY <1>2, Bases
<1>8. CASE e \in OneShot
  <2>1. evq_del(e, Listed(e))
    BY <1>1, <1>8
  <2>2. ev[e].index \in 1..npolls /\ \A k \in 1..N : k # ev[e].index => events'[k] = events[k]
    BY <1>1, <1>3, <1>4, <1>5, <2>1, evq_delKeeps
  <2>3. events[ev[e].index] = e
    BY <1>1, <1>3, Indexed
  <2>4. /\ \A x \in Events \ {e} : Alike(ev'[x], Listed(e)[x])
        /\ ev'[e].active = Listed(e)[e].active /\ ev'[e].next = Listed(e)[e].next
        /\ ev'[e].known = Listed(e)[e].known /\ ev'[e].delete = Listed(e)[e].delete
        /\ ~ev'[e].evq /\ ev'[e].tq = "none"
    BY <1>3, <1>5, <2>1, evq_delAlike
  <2>5. \A k \in 1..sel.npolls : events'[k] = events[k] \/ events[k] = e
    BY <1>7, <2>2, <2>3
  <2>6. meddled = {} => \A k \in 1..sel.npolls :
          k >= i + 1 => k >= i /\ events'[k] = events[k] /\ events[k] # e
    BY <1>6, <1>7, <2>2
  <2> QED
    BY <1>1, <1>2, <1>3, <1>4, <1>5, <2>4, <2>5, <2>6, ListedIs
<1>9. CASE e \notin OneShot
  <2>1. meddled = {} => \A k \in 1..sel.npolls :
          k >= i + 1 => k >= i /\ events'[k] = events[k] /\ events[k] # e
    BY <1>1, <1>6, <1>9
  <2> QED
    BY <1>1, <1>2, <1>3, <1>4, <1>5, <1>9, <2>1, ListedIs DEF Alike
<1> QED
  BY <1>8, <1>9

LEMMA ExpireIs ==
  ASSUME IInv, MarksSound, NEW e \in Events, Expire(e)
  PROVE  /\ at = "expire" /\ e \in due /\ due' = due \ {e} /\ list' = e
         /\ abandoned' = abandoned \ {e} /\ UNCHANGED <<object_events, at>>
         /\ e \in Deadlines /\ ev[e].known /\ ~ev[e].delete
         /\ \A x \in Events \ {e} : ev'[x] = ev[x]
         /\ ev'[e].active /\ ev'[e].next = list /\ ev'[e].known /\ ~ev'[e].delete
         /\ ev'[e].evq /\ ev'[e].tq = ev[e].tq
<1>1. /\ at = "expire" /\ e \in due /\ due' = due \ {e} /\ list' = e
      /\ abandoned' = abandoned \ {e} /\ UNCHANGED <<object_events, at>>
      /\ ev' = [Listed(e) EXCEPT ![e].expired = TRUE]
  BY DEF Expire, queue
<1>2. ev[e].tq = "finite"
  BY <1>1 DEF MarksSound, Finite
<1>3. e \in Deadlines /\ ev[e].evq /\ ev[e].known /\ ~ev[e].delete
  BY <1>2 DEF MarksSound, IInv, FlagsSound
<1>4. Listed(e) \in [Events -> Event] /\ \A x \in Events \ {e} : Listed(e)[x] = ev[x]
  BY ListedIsEvent
<1> DEFINE L == Listed(e)
<1>5. L \in [Events -> Event] /\ L[e] \in Event /\ ev' = [L EXCEPT ![e] = [L[e] EXCEPT !.expired = TRUE]]
  BY <1>1, <1>4
<1>6. (\A x \in Events \ {e} : L[x] = ev[x]) /\ L[e].active /\ L[e].next = list
      /\ L[e].known = ev[e].known /\ L[e].delete = ev[e].delete /\ L[e].evq = ev[e].evq
      /\ L[e].tq = ev[e].tq
  BY <1>4, ListedIs
<1> HIDE DEF L
<1>7. (\A x \in Events \ {e} : ev'[x] = L[x]) /\ ev'[e] = [L[e] EXCEPT !.expired = TRUE]
  BY <1>5
<1>8. /\ ev'[e].active = L[e].active /\ ev'[e].next = L[e].next /\ ev'[e].known = L[e].known
      /\ ev'[e].delete = L[e].delete /\ ev'[e].evq = L[e].evq /\ ev'[e].tq = L[e].tq
  BY <1>5, <1>7 DEF Event
<1> QED
  BY <1>1, <1>3, <1>6, <1>7, <1>8

(* An event that is not in the lists goes to the head of that of the loop. *)
LEMMA ListedLists ==
  ASSUME IInv, IInv', MarksSound, NEW s, NEW o, ListsSound(s, o), NEW e \in Events,
         e \notin ToSet(s), e \notin ToSet(o), e \notin ObjectEvents,
         list' = e, object_events' = object_events, abandoned' = abandoned \ {e},
         \A x \in Events \ {e} : Alike(ev'[x], ev[x]),
         ev'[e].active, ev'[e].next = list, ev'[e].known,
         ev'[e].tq # "none" => ev'[e].evq /\ ev'[e].tq = ev[e].tq,
         at' = at, at \in {"poll", "expire"},
         at = "poll" /\ meddled' = {} =>
           \A k \in 1..sel'.npolls : k >= i' => events'[k] \notin ToSet(s) \cup {e},
         at = "expire" => due' = due \ {e}
  PROVE  MarksSound' /\ ListsSound(<<e>> \o s, o)' /\ ToSet(<<e>> \o s) = ToSet(s) \cup {e}
<1>0. (ToSet(s) \cup ToSet(o) \cup abandoned) \subseteq Events
  BY DEF ListsSound
<1>1. Links(ev', <<e>> \o s, e) /\ ToSet(<<e>> \o s) = ToSet(s) \cup {e}
  <2>1. \A x \in ToSet(s) : ev'[x].next = ev[x].next
    BY <1>0 DEF Alike
  <2> QED
    BY <2>1, LinksCons DEF ListsSound
<1>2. Links(ev', o, object_events)
  <2>1. \A x \in ToSet(o) : ev'[x].next = ev[x].next
    BY <1>0 DEF Alike
  <2> QED
    BY <2>1, LinksSame DEF ListsSound
<1> DEFINE r == <<e>> \o s
<1>3. Links(ev', r, e) /\ ToSet(r) = ToSet(s) \cup {e}
  BY <1>1
<1> HIDE DEF r
<1>4. {x \in Events : ev'[x].active} = ToSet(r) \cup ToSet(o) \cup abandoned'
  <2>1. {x \in Events : ev'[x].active} = {x \in Events : ev[x].active} \cup {e}
    BY DEF Alike
  <2> QED
    BY <2>1, <1>3 DEF ListsSound
<1>5. ListsSound(r, o)'
  <2>1. ToSet(r) \cap ToSet(o) = {} /\ abandoned' \cap (ToSet(r) \cup ToSet(o)) = {}
    BY <1>3 DEF ListsSound
  <2>2. at' = "poll" /\ meddled' = {} =>
          \A k \in 1..sel'.npolls : k >= i' => events'[k] \notin ToSet(r)
    BY <1>3
  <2>3. at' = "expire" => due' \cap ToSet(r) = {}
    BY <1>3 DEF ListsSound
  <2>4. ToSet(r) \cap ObjectEvents = {}
    BY <1>3 DEF ListsSound
  <2> QED
    BY <1>2, <1>3, <1>4, <2>1, <2>2, <2>3, <2>4 DEF ListsSound
<1>6. MarksSound'
  <2>1. at' \in Holding
    BY DEF Holding
  <2>2. at' = "expire" => due' \subseteq Finite'
    <3>1. at = "expire" => due \subseteq Finite
      BY DEF MarksSound
    <3>2. \A x \in Events \ {e} : ev[x].tq = "finite" => ev'[x].tq = "finite"
      BY DEF Alike
    <3> QED
      BY <3>1, <3>2 DEF Finite
  <2>3. \A x \in Events : /\ ev'[x].active => ev'[x].known
                          /\ ev'[x].tq # "none" => ev'[x].evq
                          /\ ev'[x].tq = "finite" => x \in Deadlines
    BY DEF MarksSound, Alike
  <2> QED
    BY <2>1, <2>2, <2>3 DEF MarksSound
<1> QED
  BY <1>3, <1>5, <1>6 DEF r

LEMMA ScanFindsLists ==
  ASSUME IInv, IInv', MarksSound, NEW s, NEW o, ListsSound(s, o), ScanFinds, NEW e, e = events[i]
  PROVE  MarksSound' /\ ListsSound(<<e>> \o s, o)' /\ ToSet(<<e>> \o s) = ToSet(s) \cup {e}
<1>1. /\ e \in FdEvents /\ e \in Events /\ at = "poll" /\ i \in 1..sel.npolls
      /\ i' = i + 1 /\ list' = e /\ abandoned' = abandoned \ {e} /\ e \notin Members(list)
      /\ UNCHANGED <<object_events, at, sel, meddled>>
      /\ \A x \in Events \ {e} : Alike(ev'[x], ev[x])
      /\ ev'[e].active /\ ev'[e].next = list /\ ev'[e].known
      /\ ev'[e].tq # "none" => ev'[e].evq /\ ev'[e].tq = ev[e].tq
      /\ meddled = {} => \A k \in 1..sel.npolls :
           k >= i + 1 => k >= i /\ events'[k] = events[k] /\ events[k] # e
  BY ScanFindsIs
<1>2. Members(list) = ToSet(s)
  BY LinkedMembers DEF ListsSound
<1>3. e \notin ToSet(s) /\ e \notin ToSet(o) /\ e \notin ObjectEvents
  BY <1>1, <1>2, Bases DEF ListsSound
<1>4. meddled' = {} => \A k \in 1..sel'.npolls : k >= i' => events'[k] \notin ToSet(s) \cup {e}
  BY <1>1 DEF ListsSound
<1> QED
  BY <1>1, <1>3, <1>4, ListedLists

LEMMA ExpireLists ==
  ASSUME IInv, IInv', MarksSound, Untimed, NEW s, NEW o, ListsSound(s, o), NEW e \in Events, Expire(e)
  PROVE  MarksSound' /\ ListsSound(<<e>> \o s, o)' /\ ToSet(<<e>> \o s) = ToSet(s) \cup {e}
<1>1. /\ at = "expire" /\ e \in due /\ due' = due \ {e} /\ list' = e
      /\ abandoned' = abandoned \ {e} /\ UNCHANGED <<object_events, at>>
      /\ e \in Deadlines
      /\ \A x \in Events \ {e} : Alike(ev'[x], ev[x])
      /\ ev'[e].active /\ ev'[e].next = list /\ ev'[e].known
      /\ ev'[e].tq # "none" => ev'[e].evq /\ ev'[e].tq = ev[e].tq
  BY ExpireIs DEF Alike
<1>2. e \notin ToSet(s) /\ e \notin ToSet(o) /\ e \notin ObjectEvents
  BY <1>1 DEF ListsSound, Untimed
<1> QED
  BY <1>1, <1>2, ListedLists

-----------------------------------------------------------------------------
(* The list of the loop *)

LEMMA MergeIs ==
  ASSUME IInv, NEW s, NEW o, ListsSound(s, o), Merge
  PROVE  /\ at' \in {"list", "interrupt", "test"} /\ object_events' = Nil /\ abandoned' = abandoned
         /\ list' = IF object_events = Nil THEN list ELSE object_events
         /\ at' # "list" => list' = Nil
         /\ \A x \in Events : /\ ev'[x].active = ev[x].active /\ ev'[x].known = ev[x].known
                               /\ ev'[x].delete = ev[x].delete /\ ev'[x].tq = ev[x].tq
                               /\ ev'[x].evq = ev[x].evq
         /\ \A x \in Events \ EndsOf(object_events) : ev'[x].next = ev[x].next
         /\ \A x \in EndsOf(object_events) : ev'[x].next = list
<1> DEFINE En == EndsOf(object_events)
           r(x) == [ev[x] EXCEPT !.next = list]
<1>1. /\ object_events' = Nil /\ abandoned' = abandoned
      /\ list' = IF object_events = Nil THEN list ELSE object_events
      /\ at' = IF list' # Nil THEN "list" ELSE IF intr THEN "interrupt" ELSE "test"
      /\ ev' = [x \in Events |-> IF x \in En THEN r(x) ELSE ev[x]]
  BY DEF Merge, AfterMerge
<1>2. \A x \in Events : /\ r(x).active = ev[x].active /\ r(x).known = ev[x].known
                        /\ r(x).delete = ev[x].delete /\ r(x).tq = ev[x].tq
                        /\ r(x).evq = ev[x].evq /\ r(x).next = list
  <2>1. \A x \in Events : ev[x] \in Event
    BY Bases
  <2> QED
    BY <2>1 DEF Event
<1>3. En \subseteq Events
  BY DEF EndsOf, Members
<1> HIDE DEF En, r
<1>4. \A x \in Events : ev'[x] = IF x \in En THEN r(x) ELSE ev[x]
  BY <1>1
<1>5. \A x \in Events : /\ ev'[x].active = ev[x].active /\ ev'[x].known = ev[x].known
                         /\ ev'[x].delete = ev[x].delete /\ ev'[x].tq = ev[x].tq
                         /\ ev'[x].evq = ev[x].evq
  BY <1>2, <1>4
<1>6. /\ \A x \in Events \ En : ev'[x].next = ev[x].next
      /\ \A x \in En : ev'[x].next = list
  BY <1>2, <1>3, <1>4
<1> QED
  BY <1>1, <1>5, <1>6 DEF En

LEMMA MergeLists ==
  ASSUME IInv, IInv', MarksSound, NEW s, NEW o, ListsSound(s, o), Merge
  PROVE  /\ MarksSound' /\ ListsSound(o \o s, <<>>)'
         /\ ToSet(o \o s) = ToSet(o) \cup ToSet(s)
<1>1. /\ at' \in {"list", "interrupt", "test"} /\ object_events' = Nil /\ abandoned' = abandoned
      /\ list' = IF object_events = Nil THEN list ELSE object_events
      /\ at' # "list" => list' = Nil
      /\ \A x \in Events : /\ ev'[x].active = ev[x].active /\ ev'[x].known = ev[x].known
                            /\ ev'[x].tq = ev[x].tq /\ ev'[x].evq = ev[x].evq
      /\ \A x \in Events \ EndsOf(object_events) : ev'[x].next = ev[x].next
      /\ \A x \in EndsOf(object_events) : ev'[x].next = list
  BY MergeIs
<1>2. Links(ev, s, list) /\ Links(ev, o, object_events) /\ ToSet(o) \cap ToSet(s) = {}
      /\ ToSet(s) \cup ToSet(o) \subseteq Events
  BY DEF ListsSound
<1>3. Links(ev', o \o s, list') /\ ToSet(o \o s) = ToSet(o) \cup ToSet(s)
  <2>1. CASE o = <<>>
    <3>1. object_events = Nil /\ list' = list /\ ToSet(o) = {} /\ o \o s = s
      BY <2>1, <1>1, <1>2, EmptyAsSet DEF Links
    <3>2. EndsOf(object_events) = {}
      BY <3>1, <1>2, LinkedMembers DEF EndsOf
    <3>3. \A x \in ToSet(s) : ev'[x].next = ev[x].next
      BY <3>2, <1>1, <1>2
    <3> QED
      BY <3>1, <3>3, <1>2, LinksSame
  <2>2. CASE o # <<>>
    <3>1. object_events # Nil
      <4>1. object_events = Nil => o = <<>>
        BY <1>2, LinksNil
      <4> QED
        BY <4>1, <2>2
    <3>2. EndsOf(object_events) = {o[Len(o)]}
      BY <2>2, <1>2, LinkedMembers
    <3>3. ev'[o[Len(o)]].next = list
      BY <3>2, <1>1
    <3>4. SameLinks(ev, ev', (ToSet(o) \cup ToSet(s)) \ {o[Len(o)]})
      BY <3>2, <1>1, <1>2 DEF SameLinks
    <3>5. Links(ev', o \o s, object_events)
      BY <2>2, <3>3, <3>4, <1>2, LinksJoin
    <3>6. ToSet(o \o s) = ToSet(o) \cup ToSet(s)
      BY <2>2, <3>3, <3>4, <3>5, <1>2, LinksJoin
    <3> QED
      BY <3>1, <3>5, <3>6, <1>1
  <2> QED
    BY <2>1, <2>2
<1>4. ListsSound(o \o s, <<>>)'
  <2> DEFINE t == o \o s
  <2>1. Links(ev', t, list') /\ ToSet(t) = ToSet(o) \cup ToSet(s)
    BY <1>3
  <2> HIDE DEF t
  <2>2. {x \in Events : ev'[x].active} = {x \in Events : ev[x].active}
    BY <1>1
  <2>3. ListsSound(t, <<>>)'
    BY <2>1, <2>2, <1>1, LinksNothing, EmptyAsSet DEF ListsSound
  <2> QED
    BY <2>3 DEF t
<1>5. MarksSound'
  BY <1>1 DEF MarksSound, Holding
<1> QED
  BY <1>3, <1>4, <1>5

(* The head of the list leaves it: its callback has returned, or it was deleted. *)
LEMMA HeadLeaves ==
  ASSUME IInv, IInv', MarksSound, NEW s, NEW o, ListsSound(s, o), NEW e, e = list, e # Nil,
         list' = ev[e].next, UNCHANGED <<object_events, abandoned>>,
         \A x \in Events \ {e} : ev'[x] = ev[x],
         ~ev'[e].active, ev'[e].tq # "none" => ev'[e].evq, ev'[e].tq = "finite" => e \in Deadlines,
         at' = "list"
  PROVE  /\ MarksSound' /\ ListsSound(Tail(s), o)' /\ e \in ToSet(s)
         /\ ToSet(Tail(s)) = ToSet(s) \ {e}
<1>1. ToSet(s) \cup ToSet(o) \subseteq Events
  BY DEF ListsSound
<1>2. e \in ToSet(s) /\ Links(ev', Tail(s), ev[e].next) /\ ToSet(Tail(s)) = ToSet(s) \ {e}
  <2>1. \A x \in ToSet(s) \ {e} : ev'[x].next = ev[x].next
    BY <1>1
  <2> QED
    BY <2>1, LinksTail DEF ListsSound
<1>3. Links(ev', o, object_events)
  <2>1. \A x \in ToSet(o) : ev'[x].next = ev[x].next
    BY <1>1, <1>2 DEF ListsSound
  <2> QED
    BY <2>1, LinksSame DEF ListsSound
<1> DEFINE t == Tail(s)
<1>4. Links(ev', t, list') /\ ToSet(t) = ToSet(s) \ {e}
  BY <1>2
<1> HIDE DEF t
<1>5. {x \in Events : ev'[x].active} = {x \in Events : ev[x].active} \ {e}
  BY <1>1, <1>2
<1>6. ListsSound(t, o)'
  <2>1. {x \in Events : ev'[x].active} = ToSet(t) \cup ToSet(o) \cup abandoned
    BY <1>2, <1>4, <1>5 DEF ListsSound
  <2> QED
    BY <2>1, <1>3, <1>4 DEF ListsSound
<1>7. MarksSound'
  BY DEF MarksSound, Holding
<1> QED
  BY <1>2, <1>4, <1>6, <1>7 DEF t

LEMMA PassOverIs ==
  ASSUME IInv, PassOver
  PROVE  /\ at = "list" /\ at' = "list" /\ list \in Events /\ ev[list].delete /\ ~ev[list].evq
         /\ ev'[list] = Fresh /\ list' = ev[list].next
         /\ \A x \in Events \ {list} : ev'[x] = ev[x]
         /\ UNCHANGED <<object_events, abandoned>>
<1>1. /\ at = "list" /\ at' = at /\ list # Nil /\ ev[list].delete
      /\ ev' = [ev EXCEPT ![list] = Fresh] /\ list' = ev[list].next
      /\ UNCHANGED <<object_events, abandoned>>
  BY DEF PassOver, queue
<1>2. list \in Events
  BY <1>1 DEF IInv, TypeOK
<1> QED
  BY <1>1, <1>2, Bases DEF IInv, FlagsSound

LEMMA CallbackReturnsIs ==
  ASSUME IInv, CallbackReturns
  PROVE  /\ at = "callback" /\ at' = "list" /\ list \in Events /\ list' = ev[list].next
         /\ \A x \in Events \ {list} : ev'[x] = ev[x]
         /\ UNCHANGED <<object_events, abandoned>>
         /\ ~ev'[list].active
         /\ ev[list].evq => /\ ev'[list].known = ev[list].known
                            /\ ev'[list].delete = ev[list].delete
                            /\ ev'[list].evq /\ ev'[list].tq = ev[list].tq
         /\ ~ev[list].evq => ev'[list] = Fresh
<1> DEFINE r == [ev[list] EXCEPT !.active = FALSE, !.expired = FALSE, !.next = Nil]
<1>1. /\ at = "callback" /\ at' = "list" /\ list' = ev[list].next
      /\ UNCHANGED <<object_events, abandoned>>
  BY DEF CallbackReturns, queue
<1>2. list \in Events /\ ev \in [Events -> Event] /\ ev[list] \in Event
  BY <1>1, Bases DEF IInv, TypeOK, FlagsSound
<1>3. ev' = [ev EXCEPT ![list] = IF ev[list].evq THEN r ELSE Fresh]
  BY <1>2 DEF CallbackReturns
<1>4. ~r.active /\ r.known = ev[list].known /\ r.delete = ev[list].delete
      /\ r.evq = ev[list].evq /\ r.tq = ev[list].tq
  BY <1>2 DEF Event
<1> HIDE DEF r
<1>5. (\A x \in Events \ {list} : ev'[x] = ev[x]) /\ ev'[list] = IF ev[list].evq THEN r ELSE Fresh
  BY <1>2, <1>3
<1> QED
  BY <1>1, <1>2, <1>4, <1>5, FreshIs

LEMMA HeadReturnsLists ==
  ASSUME IInv, IInv', MarksSound, NEW s, NEW o, ListsSound(s, o), PassOver \/ CallbackReturns,
         NEW e, e = list
  PROVE  /\ MarksSound' /\ ListsSound(Tail(s), o)' /\ e \in ToSet(s)
         /\ ToSet(Tail(s)) = ToSet(s) \ {e}
<1>1. list # Nil
  BY PassOverIs, CallbackReturnsIs, FiniteEvents
<1>2. /\ list' = ev[e].next /\ at' = "list" /\ UNCHANGED <<object_events, abandoned>>
      /\ \A x \in Events \ {e} : ev'[x] = ev[x]
      /\ ~ev'[e].active /\ (ev'[e].tq # "none" => ev'[e].evq)
      /\ (ev'[e].tq = "finite" => e \in Deadlines)
  BY PassOverIs, CallbackReturnsIs, FreshIs DEF MarksSound
<1> QED
  BY <1>1, <1>2, HeadLeaves

LEMMA CallbackFailsLists ==
  ASSUME IInv, IInv', MarksSound, NEW s, NEW o, ListsSound(s, o), CallbackFails
  PROVE  MarksSound' /\ ListsSound(<<>>, o)' /\ abandoned' = abandoned \cup ToSet(s)
<1>1. /\ at' = "out" /\ list' = Nil /\ abandoned' = abandoned \cup Members(list)
      /\ UNCHANGED <<ev, object_events>>
  BY DEF CallbackFails, queue
<1>2. Members(list) = ToSet(s)
  BY LinkedMembers DEF ListsSound
<1>3. ListsSound(<<>>, o)'
  BY <1>1, <1>2, LinksNothing, EmptyAsSet DEF ListsSound
<1>4. MarksSound'
  BY <1>1 DEF MarksSound
<1> QED
  BY <1>1, <1>2, <1>3, <1>4

-----------------------------------------------------------------------------
(* Every step *)

LEMMA ListsStep == ASSUME Untimed, ListsInv, [Next]_vars PROVE ListsInv'
<1>1. IInv /\ IInv' /\ MarksSound
  BY StepKeeps DEF ListsInv
<1>2. PICK s, o \in Seq(Events) : ListsSound(s, o)
  BY DEF ListsInv
<1> SUFFICES MarksSound' /\ \E t, r \in Seq(Events) : ListsSound(t, r)'
  BY <1>1 DEF ListsInv
<1>3. \A t, r : ListsSound(t, r)' => t \in Seq(Events) /\ r \in Seq(Events)
  BY DEF ListsSound, Links
<1>4. CASE ProgramCalls
  <2>1. CASE Trigger \/ TriggerEnd
    BY <1>1, <1>2, <2>1, TriggerLists
  <2>2. ASSUME NEW e \in Events, Del(e) \/ Change(e) PROVE MarksSound' /\ ListsSound(s, o)'
    BY <1>1, <1>2, <2>2, DelLists, TimedLists
  <2>3. ASSUME NEW e \in Events, NEW msec \in {"none", "finite", "infinite"},
               Add(e, msec) \/ SetTimeout(e, msec)
        PROVE  MarksSound' /\ ListsSound(s, o)'
    BY <1>1, <1>2, <2>3, AddLists, TimedLists
  <2> QED
    BY <1>1, <1>2, <1>4, <2>1, <2>2, <2>3, QuietCallsList DEF ProgramCalls
<1>5. CASE LoopSteps
  <2>1. CASE ScanFinds
    <3>1. PICK e : e = events[i]
      OBVIOUS
    <3>2. MarksSound' /\ ListsSound(<<e>> \o s, o)'
      BY <1>1, <1>2, <2>1, <3>1, ScanFindsLists
    <3> QED
      BY <1>3, <3>2
  <2>2. CASE \E e \in Events : Expire(e)
    BY <1>1, <1>2, <1>3, <2>2, ExpireLists
  <2>3. CASE Merge
    BY <1>1, <1>2, <1>3, <2>3, MergeLists
  <2>4. CASE PassOver
    <3>1. PICK e : e = list
      OBVIOUS
    <3> QED
      BY <1>1, <1>2, <1>3, <2>4, <3>1, HeadReturnsLists
  <2>5. CASE \/ LoopEnds \/ Resume \/ ScanBreaks \/ ScanPasses \/ ScanEnds \/ ExpireEnds
             \/ LoopTimesOut \/ ListEnds \/ Call \/ \E limit \in Limits : EnterSelect(limit)
    BY <1>1, <1>2, <2>5, QuietCallsList, ResumeLists, ScanPassesLists, QuietLoopLists, SelectLists
  <2> QED
    BY <1>5, <2>1, <2>2, <2>3, <2>4, <2>5 DEF LoopSteps
<1>6. CASE Returns
  BY <1>1, <1>2, <1>6, SelectLists DEF Returns
<1>7. CASE Callbacks
  <2>1. CASE CallbackReturns
    <3>1. PICK e : e = list
      OBVIOUS
    <3> QED
      BY <1>1, <1>2, <1>3, <2>1, <3>1, HeadReturnsLists
  <2>2. CASE CallbackFails
    BY <1>1, <1>2, <1>3, <2>2, CallbackFailsLists
  <2> QED
    BY <1>1, <1>2, <1>7, <2>1, <2>2, QuietLoopLists DEF Callbacks
<1>8. CASE UNCHANGED vars
  BY <1>1, <1>2, <1>8 DEF vars, queue, polling, scan, MarksSound, Finite, ListsSound
<1> QED
  BY <1>4, <1>5, <1>6, <1>7, <1>8 DEF Next

LEMMA ListsInvHolds == Untimed => (Spec => []ListsInv)
<1> SUFFICES ASSUME Untimed PROVE Spec => []ListsInv
  OBVIOUS
<1>1. ListsInv /\ [Next]_vars => ListsInv'
  BY ListsStep
<1> QED
  BY <1>1, InitLists, PTL DEF Spec

(* The two lists that next_ready links, that of the loop and that of the objects,  *)
(* end, have no event in common and hold what is known and active, for any events, *)
(* none of them of an object and with a deadline at once, and for any deletions,   *)
(* restarts and triggers while they are walked.                                    *)
THEOREM ReadyListsAreSound == ASSUME Untimed PROVE Spec => []ReadyListsSound
<1>1. ASSUME ListsInv PROVE ReadyListsSound
  <2>1. PICK s, o \in Seq(Events) : ListsSound(s, o)
    BY <1>1 DEF ListsInv
  <2>2. /\ InHand = ToSet(s) /\ Terminates(list)
        /\ Pending = ToSet(o) /\ Terminates(object_events)
    BY <2>1, LinkedMembers DEF ListsSound, InHand, Pending
  <2>3. ToSet(s) \cap ToSet(o) = {}
        /\ {e \in Events : ev[e].active} = ToSet(s) \cup ToSet(o) \cup abandoned
    BY <2>1 DEF ListsSound
  <2>4. \A e \in ToSet(s) \cup ToSet(o) : ev[e].known
    BY <1>1, <2>3 DEF ListsInv, MarksSound
  <2> QED
    BY <2>2, <2>3, <2>4 DEF ReadyListsSound
<1> QED
  BY <1>1, ListsInvHolds, PTL

-----------------------------------------------------------------------------
(* What select has found *)

(* S is what is in the list of the loop.  While the scan goes on, left counts the  *)
(* descriptors found that are not there yet, and each of them that waits for        *)
(* something and was not deleted meanwhile is still ahead of it.                    *)
Ahead(k, f) == k \in 1..sel.npolls /\ k >= i /\ events[k] = f
FoundSound(S) ==
  LET found == hit \ {"pipe"}
  IN  /\ InSelect => \A f \in sel.readset \ meddled : ev[f].evq /\ ev[f].index <= sel.npolls
      /\ hit \subseteq sel.readset \cup {"pipe"}
      /\ at \in {"select", "timedout", "eintr", "expire"} => hit = {}
      /\ at = "found" => left = Cardinality(found) /\ i = 1
      /\ at = "poll" => /\ left = Cardinality(found \ S)
                        /\ \A f \in (found \ S) \ meddled :
                             ev[f].evq /\ (ev[f].wants => \E k \in Nat : Ahead(k, f))
      /\ at = "merge" => \A f \in found \ meddled : ev[f].wants => f \in S
      /\ at = "broken" => meddled # {}

FoundInv == /\ IInv /\ MarksSound
            /\ \E s, o \in Seq(Events) : ListsSound(s, o) /\ FoundSound(ToSet(s))

LEMMA InitFound == Init => FoundInv
<1> SUFFICES ASSUME Init PROVE FoundInv
  OBVIOUS
<1>1. \A S : FoundSound(S)
  BY DEF Init, FoundSound, InSelect
<1> QED
  BY <1>1, InitLists DEF ListsInv, FoundInv

(* Of what select was given, calls during it take away what they delete. *)
LEMMA CallsInSelect ==
  ASSUME IInv, IInv', MarksSound, InSelect, ProgramCalls
  PROVE  /\ meddled \subseteq meddled'
         /\ \A f \in FdEvents \ meddled' : ev[f].evq => ev'[f].evq /\ ev'[f].index <= ev[f].index
<1>1. \A f \in FdEvents : f \in Events /\ ev[f].index \in Nat
  BY Bases DEF Event
<1>2. ASSUME meddled' = meddled,
             \A f \in FdEvents : ev[f].evq => ev'[f].evq /\ ev'[f].index = ev[f].index
      PROVE  /\ meddled \subseteq meddled'
             /\ \A f \in FdEvents \ meddled' : ev[f].evq => ev'[f].evq /\ ev'[f].index <= ev[f].index
  BY <1>1, <1>2
<1>3. ASSUME NEW e \in Events, Del(e)
      PROVE  /\ meddled \subseteq meddled'
             /\ \A f \in FdEvents \ meddled' : ev[f].evq => ev'[f].evq /\ ev'[f].index <= ev[f].index
  <2>1. /\ Leaves(e) \in [Events -> Event] /\ \A x \in Events \ {e} : Leaves(e)[x] = ev[x]
    BY LeavesIsEvent
  <2>2. meddled' = meddled \cup (IF ev[e].evq THEN {e} \cap FdEvents ELSE {})
    BY <1>3 DEF Del
  <2>3. CASE e \in FdEvents /\ ev[e].evq
    <3>1. evq_del(e, Leaves(e)) /\ watching' = watching
      <4>1. e \notin ToSet(watching)
        BY <2>3, Bases DEF IInv, WatchingSound
      <4> QED
        BY <1>3, <2>3, <4>1 DEF Del, Unlinked
    <3>2. /\ \A x \in Events \ {e} : ev'[x].evq = ev[x].evq
          /\ \A x \in FdEvents \ {e} :
               \/ ev'[x].index = ev[x].index
               \/ ev'[x].index = ev[e].index /\ ev[e].index < ev[x].index
      BY <2>1, <2>3, <3>1, evq_delKeeps
    <3> QED
      BY <1>1, <2>2, <2>3, <3>2
  <2>4. CASE ~(e \in FdEvents /\ ev[e].evq)
    <3>1. \A f \in FdEvents : ev[f].evq => ev'[f] = ev[f]
      BY <1>1, <1>3, <2>1, <2>4 DEF Del, evq_del_timer
    <3> QED
      BY <1>2, <2>2, <2>4, <3>1
  <2> QED
    BY <2>3, <2>4
<1>4. ASSUME NEW e \in Events, Change(e)
      PROVE  /\ meddled' = meddled
             /\ \A f \in FdEvents : ev[f].evq => ev'[f].evq /\ ev'[f].index = ev[f].index
  <2> DEFINE r == [ev[e] EXCEPT !.wants = ~ev[e].wants]
  <2>1. ev' = [ev EXCEPT ![e] = r] /\ meddled' = meddled
    BY <1>4 DEF Change, scan
  <2>2. r.evq = ev[e].evq /\ r.index = ev[e].index
    BY Bases DEF Event
  <2> HIDE DEF r
  <2> QED
    BY <1>1, <2>1, <2>2, Bases
<1>5. ASSUME NEW e \in Events, NEW msec \in {"none", "finite", "infinite"}, Add(e, msec)
      PROVE  /\ meddled' = meddled
             /\ \A f \in FdEvents : ev[f].evq => ev'[f].evq /\ ev'[f].index = ev[f].index
  <2>1. meddled' = meddled /\ \A x \in Events \ {e} : ev'[x] = ev[x]
    BY <1>5 DEF Add, scan, IInv, TypeOK
  <2>2. ~ev[e].evq
    BY <1>5 DEF Add, IInv, FlagsSound
  <2> QED
    BY <1>1, <2>1, <2>2
<1>6. ASSUME NEW e \in Events, NEW msec \in {"none", "finite", "infinite"}, SetTimeout(e, msec)
      PROVE  /\ meddled' = meddled
             /\ \A f \in FdEvents : ev[f].evq => ev'[f].evq /\ ev'[f].index = ev[f].index
  <2> DEFINE r == [ev[e] EXCEPT !.tq = msec]
  <2>1. ev' = [ev EXCEPT ![e] = r] /\ meddled' = meddled
    BY <1>6 DEF SetTimeout, scan
  <2>2. r.evq = ev[e].evq /\ r.index = ev[e].index
    BY Bases DEF Event
  <2> HIDE DEF r
  <2> QED
    BY <1>1, <2>1, <2>2, Bases
<1>7. ASSUME Interrupt \/ Stop \/ LoopBegins \/ TriggerHangs
      PROVE  /\ meddled' = meddled
             /\ \A f \in FdEvents : ev[f].evq => ev'[f].evq /\ ev'[f].index = ev[f].index
  BY <1>7 DEF Interrupt, Stop, LoopBegins, TriggerHangs, scan
<1>8. ASSUME Trigger \/ TriggerEnd
      PROVE  /\ meddled' = meddled
             /\ \A f \in FdEvents : ev[f].evq => ev'[f].evq /\ ev'[f].index = ev[f].index
  <2>1. \A f \in FdEvents : f \notin ToSet(watching)
    BY Bases DEF IInv, WatchingSound
  <2>2. \A f \in FdEvents : /\ Pushed(ev)[f].evq = ev[f].evq
                            /\ Pushed(ev)[f].index = ev[f].index
    BY <1>1, PushedIsEvent
  <2>3. \A f \in FdEvents : ev'[f] = Pushed(ev)[f] \/ ev'[f] = ev[f]
    BY <1>1, <1>8, <2>1 DEF Trigger, TriggerEnd
  <2>4. meddled' = meddled
    BY <1>8 DEF Trigger, TriggerEnd, scan
  <2> QED
    BY <2>2, <2>3, <2>4
<1>9. CASE \E e \in Events : Del(e)
  BY <1>3, <1>9
<1>10. CASE ~\E e \in Events : Del(e)
  <2>1. /\ meddled' = meddled
        /\ \A f \in FdEvents : ev[f].evq => ev'[f].evq /\ ev'[f].index = ev[f].index
    BY <1>4, <1>5, <1>6, <1>7, <1>8, <1>10 DEF ProgramCalls
  <2> QED
    BY <1>2, <2>1
<1> QED
  BY <1>9, <1>10

LEMMA CallsKeepFound ==
  ASSUME IInv, IInv', MarksSound, NEW S, FoundSound(S), ProgramCalls
  PROVE  \A T : FoundSound(T)'
<1>1. /\ UNCHANGED <<sel, hit, i, left>>
      /\ at \notin {"poll", "merge", "expire", "broken"}
      /\ at' = at \/ at' \in {"test", "hung"}
  BY DEF ProgramCalls, Del, Change, Add, SetTimeout, Interrupt, Stop, LoopBegins, Trigger,
         TriggerEnd, TriggerHangs, CanTrigger, VmFree, InSelect, scan
<1>2. CASE InSelect
  <2>1. /\ meddled \subseteq meddled'
        /\ \A f \in FdEvents \ meddled' : ev[f].evq => ev'[f].evq /\ ev'[f].index <= ev[f].index
    BY <1>2, CallsInSelect
  <2>2. sel.npolls \in Nat /\ sel.readset \subseteq FdEvents
    BY DEF IInv, TypeOK
  <2>3. \A f \in FdEvents : ev[f].index \in Nat /\ ev'[f].index \in Nat
    <3>1. \A f \in FdEvents : f \in Events
      BY Bases
    <3>2. ev \in [Events -> Event] /\ ev' \in [Events -> Event]
      BY DEF IInv, TypeOK
    <3> QED
      BY <3>1, <3>2 DEF Event
  <2>4. ASSUME NEW f \in sel.readset \ meddled' PROVE ev'[f].evq /\ ev'[f].index <= sel.npolls
    <3>1. f \in FdEvents /\ ev[f].evq /\ ev[f].index <= sel.npolls
      BY <1>2, <2>1, <2>2, <2>4 DEF FoundSound
    <3>2. ev'[f].evq /\ ev'[f].index <= ev[f].index
      BY <2>1, <2>4, <3>1
    <3> QED
      BY <2>2, <2>3, <3>1, <3>2
  <2> QED
    BY <1>1, <2>4 DEF FoundSound, InSelect
<1>3. CASE ~InSelect
  BY <1>1, <1>3 DEF FoundSound, InSelect
<1> QED
  BY <1>2, <1>3

LEMMA EnterSelectFound ==
  ASSUME IInv, NEW limit, EnterSelect(limit)
  PROVE  \A T : FoundSound(T)'
<1>1. /\ at' = "select" /\ hit' = {} /\ UNCHANGED ev
      /\ sel' = [npolls |-> npolls, readset |-> readset, max_fd |-> Highest]
  BY DEF EnterSelect
<1>2. sel'.npolls = npolls /\ sel'.readset = readset
  BY <1>1
<1>3. ASSUME NEW f \in readset PROVE ev[f].evq /\ ev[f].index <= npolls
  <2>1. f \in FdEvents /\ ev[f].evq
    BY DEF IInv, PollsAreKnown
  <2>2. ev[f].index \in 1..npolls
    BY <2>1, Indexed
  <2> QED
    BY <2>1, <2>2
<1> QED
  BY <1>1, <1>2, <1>3 DEF FoundSound

LEMMA SelectFound ==
  ASSUME IInv, NEW S, FoundSound(S),
         (\E fds \in SUBSET FdEvents : SelectFinds(fds)) \/ SelectTimesOut \/ SelectIsInterrupted
  PROVE  \A T : FoundSound(T)'
<1>1. CASE SelectTimesOut \/ SelectIsInterrupted
  BY <1>1 DEF SelectTimesOut, SelectIsInterrupted, FoundSound, InSelect, scan, polling
<1>2. ASSUME NEW fds \in SUBSET FdEvents, SelectFinds(fds) PROVE \A T : FoundSound(T)'
  <2>1. /\ at = "select" /\ at' = "found" /\ fds \subseteq sel.readset /\ i' = 1
        /\ hit' \in {fds, fds \cup {"pipe"}} /\ left' = Cardinality(fds)
        /\ UNCHANGED <<sel, ev, meddled>>
    BY <1>2 DEF SelectFinds, Watched
  <2>2. "pipe" \notin fds
    BY QueueAssumption DEF Events
  <2>3. hit' \ {"pipe"} = fds /\ hit' \subseteq sel.readset \cup {"pipe"}
    BY <2>1, <2>2
  <2> QED
    BY <2>1, <2>3 DEF FoundSound, InSelect
<1> QED
  BY <1>1, <1>2

LEMMA ResumeFound ==
  ASSUME IInv, NEW S, FoundSound(S), Resume
  PROVE  FoundSound({})'
<1>1. /\ \/ at = "found" /\ at' = "poll"
         \/ at = "timedout" /\ at' = "expire"
         \/ at = "eintr" /\ at' = "merge"
      /\ UNCHANGED <<ev, sel, hit, i, left, meddled, events>>
  BY DEF Resume, scan, polling
<1>2. InSelect
  BY <1>1 DEF InSelect
<1>3. CASE at = "found"
  <2>1. ASSUME NEW f \in (hit \ {"pipe"}) \ meddled
        PROVE  ev[f].evq /\ \E k \in Nat : Ahead(k, f)
    <3>1. f \in sel.readset \ meddled
      BY <2>1 DEF FoundSound
    <3>2. f \in FdEvents /\ ev[f].evq /\ ev[f].index <= sel.npolls
      BY <1>2, <3>1 DEF FoundSound, IInv, TypeOK
    <3>3. ev[f].index \in 1..npolls /\ events[ev[f].index] = f
      BY <3>2, Indexed
    <3>4. i = 1 /\ sel.npolls \in Nat /\ npolls \in Nat
      BY <1>3, Bases DEF FoundSound, IInv, TypeOK
    <3>5. ev[f].index \in 1..sel.npolls /\ ev[f].index \in Nat /\ ev[f].index >= i
      BY <3>2, <3>3, <3>4
    <3>6. Ahead(ev[f].index, f)
      BY <3>3, <3>5 DEF Ahead
    <3> QED
      BY <3>2, <3>5, <3>6
  <2>2. (hit \ {"pipe"}) \ {} = hit \ {"pipe"}
    OBVIOUS
  <2> QED
    BY <1>1, <1>3, <2>1, <2>2 DEF FoundSound, Ahead, InSelect
<1>4. CASE at \in {"timedout", "eintr"}
  BY <1>1, <1>4 DEF FoundSound, InSelect
<1> QED
  BY <1>1, <1>3, <1>4

LEMMA FoundAhead ==
  ASSUME IInv, NEW S
  PROVE  IsFiniteSet((hit \ {"pipe"}) \ S) /\ Cardinality((hit \ {"pipe"}) \ S) \in Nat
<1>1. (hit \ {"pipe"}) \ S \subseteq FdEvents
  BY DEF IInv, TypeOK
<1> QED
  BY <1>1, FiniteEvents, FS_Subset, FS_CardinalityType

LEMMA ScanFindsFound ==
  ASSUME IInv, MarksSound, NEW s, NEW o, ListsSound(s, o), FoundSound(ToSet(s)), ScanFinds,
         NEW e, e = events[i]
  PROVE  FoundSound(ToSet(s) \cup {e})'
<1> DEFINE F == (hit \ {"pipe"}) \ ToSet(s)
           G == (hit \ {"pipe"}) \ (ToSet(s) \cup {e})
<1>1. /\ e \in FdEvents /\ e \in hit /\ at = "poll" /\ i \in 1..sel.npolls /\ i' = i + 1
      /\ left' = left - 1 /\ UNCHANGED <<at, sel, hit, meddled>> /\ e \notin Members(list)
      /\ \A x \in Events \ {e} : Alike(ev'[x], ev[x])
      /\ \A k \in 1..sel.npolls : events'[k] = events[k] \/ events[k] = e
  BY ScanFindsIs
<1>2. e \in F
  <2>1. Members(list) = ToSet(s)
    BY LinkedMembers DEF ListsSound
  <2>2. e # "pipe"
    BY <1>1, QueueAssumption DEF Events
  <2> QED
    BY <1>1, <2>1, <2>2
<1>3. G = F \ {e} /\ left = Cardinality(F)
  BY <1>1 DEF FoundSound
<1>4. left' = Cardinality(G)
  <2>1. IsFiniteSet(F) /\ Cardinality(F) \in Nat
    BY FoundAhead
  <2> HIDE DEF F, G
  <2>2. Cardinality(F \ {e}) = Cardinality(F) - 1
    BY <2>1, <1>2, FS_RemoveElement
  <2> QED
    BY <2>2, <1>1, <1>3
<1>5. ASSUME NEW f \in G \ meddled
      PROVE  ev'[f].evq /\ (ev'[f].wants => \E k \in Nat : Ahead(k, f)')
  <2>1. f # e /\ f \in Events /\ f \in F \ meddled
    BY <1>5, Bases DEF IInv, TypeOK
  <2>2. ev[f].evq /\ (ev[f].wants => \E k \in Nat : Ahead(k, f))
    BY <1>1, <2>1 DEF FoundSound
  <2>3. ev'[f].evq /\ ev'[f].wants = ev[f].wants
    BY <1>1, <2>1, <2>2 DEF Alike
  <2>4. ASSUME NEW k \in Nat, Ahead(k, f) PROVE Ahead(k, f)'
    <3>1. k \in 1..sel.npolls /\ k >= i /\ events[k] = f
      BY <2>4 DEF Ahead
    <3>2. k # i /\ events'[k] = f
      BY <1>1, <2>1, <3>1
    <3>3. k >= i + 1
      BY <1>1, <3>1, <3>2
    <3> QED
      BY <1>1, <3>1, <3>2, <3>3 DEF Ahead
  <2> QED
    BY <2>2, <2>3, <2>4
<1>6. hit \subseteq sel.readset \cup {"pipe"}
  BY DEF FoundSound
<1> QED
  BY <1>1, <1>4, <1>5, <1>6 DEF FoundSound, InSelect

LEMMA ScanGoesOnFound ==
  ASSUME IInv, NEW S, FoundSound(S), ScanPasses \/ ScanEnds
  PROVE  FoundSound(S)'
<1> DEFINE F == (hit \ {"pipe"}) \ S
<1>1. /\ at = "poll" /\ UNCHANGED <<ev, events, sel, hit, left, meddled>>
      /\ hit \subseteq sel.readset \cup {"pipe"}
      /\ i \in Nat /\ sel.npolls \in Nat
      /\ left = Cardinality(F)
      /\ \A f \in F \ meddled : ev[f].evq /\ (ev[f].wants => \E k \in Nat : Ahead(k, f))
  BY DEF ScanPasses, ScanEnds, Scanning, FoundSound, IInv, TypeOK, polling, scan
<1>2. CASE ScanPasses
  <2>1. at' = "poll" /\ i' = i + 1 /\ (~Found(events[i]) \/ ~ev[events[i]].known)
    BY <1>2 DEF ScanPasses, Scanning
  <2>2. ASSUME NEW f \in F \ meddled, ev[f].wants PROVE \E k \in Nat : Ahead(k, f)'
    <3>1. PICK k \in Nat : Ahead(k, f)
      BY <1>1, <2>2
    <3>2. Found(f) /\ ev[f].known
      <4>1. f \in Events /\ ev[f].evq
        BY <1>1, <2>2, Bases DEF IInv, TypeOK
      <4> QED
        BY <2>2, <4>1 DEF Found, IInv, FlagsSound
    <3>3. k \in 1..sel.npolls /\ k >= i /\ events[k] = f
      BY <3>1 DEF Ahead
    <3>4. k # i
      BY <2>1, <3>2, <3>3
    <3>5. k >= i + 1
      BY <1>1, <3>3, <3>4
    <3> QED
      BY <1>1, <2>1, <3>3, <3>5 DEF Ahead
  <2> QED
    BY <1>1, <2>1, <2>2 DEF FoundSound, InSelect
<1>3. CASE ScanEnds
  <2>1. at' = "merge" /\ (i > sel.npolls \/ left = 0)
    BY <1>3 DEF ScanEnds
  <2>2. ASSUME NEW f \in F \ meddled PROVE ~ev[f].wants
    <3>1. CASE left = 0
      <4>1. F = {}
        BY <1>1, <3>1, FoundAhead, FS_EmptySet
      <4> QED
        BY <2>2, <4>1
    <3>2. CASE i > sel.npolls
      BY <1>1, <2>2, <3>2 DEF Ahead
    <3> QED
      BY <2>1, <3>1, <3>2
  <2> QED
    BY <1>1, <2>1, <2>2 DEF FoundSound, InSelect
<1> QED
  BY <1>2, <1>3

(* The scan goes astray only where another thread has deleted descriptors. *)
LEMMA ScanBreaksFound ==
  ASSUME IInv, NEW s, NEW o, ListsSound(s, o), FoundSound(ToSet(s)), ScanBreaks
  PROVE  FoundSound(ToSet(s))'
<1>1. /\ at = "poll" /\ at' = "broken" /\ i \in 1..sel.npolls /\ i >= i
      /\ Astray(events[i]) /\ UNCHANGED <<sel, hit, meddled>>
  BY DEF ScanBreaks, Scanning, IInv, TypeOK, ScanSound, scan
<1>2. ASSUME meddled = {} PROVE FALSE
  <2>1. ev[events[i]].evq
    BY <1>1, <1>2 DEF IInv, ScanSound, ScanInStep, Unscanned
  <2>2. events[i] \notin ToSet(s)
    BY <1>1, <1>2 DEF ListsSound
  <2>3. Members(list) = ToSet(s)
    BY LinkedMembers DEF ListsSound
  <2> QED
    BY <1>1, <2>1, <2>2, <2>3 DEF Astray
<1> QED
  BY <1>1, <1>2 DEF FoundSound, InSelect

LEMMA ExpiringFound ==
  ASSUME IInv, NEW S, FoundSound(S), (\E e \in Events : Expire(e)) \/ ExpireEnds
  PROVE  \A T : FoundSound(T)'
<1>1. at = "expire" /\ at' \in {"expire", "merge"} /\ UNCHANGED <<sel, hit>>
  BY DEF Expire, ExpireEnds, scan
<1> QED
  BY <1>1 DEF FoundSound, InSelect

LEMMA RestFound ==
  ASSUME IInv, NEW S, FoundSound(S),
         \/ LoopEnds \/ LoopTimesOut \/ Merge \/ ListEnds \/ Call \/ PassOver \/ Callbacks
  PROVE  \A T : FoundSound(T)'
<1>1. /\ ~InSelect' /\ at' \notin {"poll", "expire", "merge", "broken"}
      /\ UNCHANGED <<sel, hit>> \/ hit' = {}
  BY DEF LoopEnds, LoopTimesOut, Merge, AfterMerge, ListEnds, Call, PassOver, Callbacks,
         CallbackReturns, InterruptReturns, CallbackFails, InSelect, scan, ScanIsOver
<1> QED
  BY <1>1 DEF FoundSound, InSelect

LEMMA FoundStep == ASSUME Untimed, FoundInv, [Next]_vars PROVE FoundInv'
<1>1. IInv /\ IInv' /\ MarksSound
  BY StepKeeps DEF FoundInv
<1>2. PICK s, o \in Seq(Events) : ListsSound(s, o) /\ FoundSound(ToSet(s))
  BY DEF FoundInv
<1>3. ListsInv /\ ListsInv'
  BY <1>1, <1>2, ListsStep DEF ListsInv
<1>4. ASSUME \A T : FoundSound(T)' PROVE FoundInv'
  BY <1>3, <1>4 DEF ListsInv, FoundInv
<1>5. \A t, r : ListsSound(t, r)' => t \in Seq(Events) /\ r \in Seq(Events)
  BY DEF ListsSound, Links
<1>6. CASE ProgramCalls
  BY <1>1, <1>2, <1>4, <1>6, CallsKeepFound
<1>7. CASE LoopSteps
  <2>1. CASE ScanFinds
    <3>1. PICK e : e = events[i]
      OBVIOUS
    <3>2. MarksSound' /\ ListsSound(<<e>> \o s, o)' /\ ToSet(<<e>> \o s) = ToSet(s) \cup {e}
      BY <1>1, <1>2, <2>1, <3>1, ScanFindsLists
    <3>3. FoundSound(ToSet(s) \cup {e})'
      BY <1>1, <1>2, <2>1, <3>1, ScanFindsFound
    <3>4. FoundSound(ToSet(<<e>> \o s))'
      BY <3>2, <3>3
    <3> QED
      BY <1>1, <1>5, <3>2, <3>4 DEF FoundInv
  <2>2. CASE ScanPasses \/ ScanEnds
    BY <1>1, <1>2, <2>2, ScanGoesOnFound, ScanPassesLists DEF FoundInv
  <2>7. CASE ScanBreaks
    BY <1>1, <1>2, <2>7, ScanBreaksFound, ScanPassesLists DEF FoundInv
  <2>3. CASE Resume
    <3>1. MarksSound' /\ ListsSound(s, o)' /\ list' = Nil
      BY <1>1, <1>2, <2>3, ResumeLists DEF Resume
    <3>2. ToSet(s) = {}
      <4>1. Links(ev', s, Nil)
        BY <3>1 DEF ListsSound
      <4> QED
        BY <4>1, LinksNil
    <3>3. FoundSound(ToSet(s))'
      BY <1>1, <1>2, <2>3, <3>2, ResumeFound
    <3> QED
      BY <1>1, <1>2, <3>1, <3>3 DEF FoundInv
  <2>4. CASE \E limit \in Limits : EnterSelect(limit)
    BY <1>1, <1>4, <2>4, EnterSelectFound
  <2>5. CASE (\E e \in Events : Expire(e)) \/ ExpireEnds
    BY <1>1, <1>2, <1>4, <2>5, ExpiringFound
  <2>6. CASE LoopEnds \/ LoopTimesOut \/ Merge \/ ListEnds \/ Call \/ PassOver
    BY <1>1, <1>2, <1>4, <2>6, RestFound
  <2> QED
    BY <1>7, <2>1, <2>2, <2>3, <2>4, <2>5, <2>6, <2>7 DEF LoopSteps
<1>8. CASE Returns
  BY <1>1, <1>2, <1>4, <1>8, SelectFound DEF Returns
<1>9. CASE Callbacks
  BY <1>1, <1>2, <1>4, <1>9, RestFound
<1>10. CASE UNCHANGED vars
  <2>1. MarksSound' /\ ListsSound(s, o)'
    BY <1>1, <1>2, <1>10 DEF vars, queue, polling, scan, MarksSound, Finite, ListsSound
  <2>2. FoundSound(ToSet(s))'
    BY <1>2, <1>10 DEF vars, polling, scan, FoundSound, Ahead, InSelect
  <2> QED
    BY <1>1, <1>2, <2>1, <2>2 DEF FoundInv
<1> QED
  BY <1>6, <1>7, <1>8, <1>9, <1>10 DEF Next

LEMMA FoundInvHolds == Untimed => (Spec => []FoundInv)
<1> SUFFICES ASSUME Untimed PROVE Spec => []FoundInv
  OBVIOUS
<1>1. FoundInv /\ [Next]_vars => FoundInv'
  BY FoundStep
<1> QED
  BY <1>1, InitFound, PTL DEF Spec

(* The scan passes over no descriptor that select has found and that waits still,   *)
(* for any array and any calls during select: nready, by which it ends before the    *)
(* end of the array, counts exactly those still ahead of it, although it deletes     *)
(* one-shot events on its way and moves the last of the array to their places.       *)
(* Nothing is said of descriptors that other threads have deleted in select, and     *)
(* only if there are such the scan comes to a deleted event or to one twice.         *)
THEOREM ScanListsAll == ASSUME Untimed PROVE Spec => []FoundAreListed
<1>1. ASSUME FoundInv PROVE FoundAreListed
  <2>1. PICK s, o \in Seq(Events) : ListsSound(s, o) /\ FoundSound(ToSet(s))
    BY <1>1 DEF FoundInv
  <2>2. Members(list) = ToSet(s)
    BY <2>1, LinkedMembers DEF ListsSound
  <2> QED
    BY <2>1, <2>2 DEF FoundSound, FoundAreListed
<1> QED
  BY <1>1, FoundInvHolds, PTL

-----------------------------------------------------------------------------
(* The dispatcher *)

StatusOf(e) == IF ~ev[e].known \/ ev[e].delete THEN "absent"
               ELSE IF ev[e].active /\ e \notin abandoned /\ ~(InCallback /\ e = list)
                    THEN "ready" ELSE "idle"
Calling == IF InCallback THEN {list} ELSE {}

DNext == [Dispatching!Next]_(Dispatching!vars)

LEMMA Stutters ==
  ASSUME \A e \in Events : StatusOf(e)' = StatusOf(e), Calling' = Calling
  PROVE  DNext
<1>1. [e \in Events |-> StatusOf(e)'] = [e \in Events |-> StatusOf(e)]
  OBVIOUS
<1> QED
  BY <1>1 DEF DNext, Dispatching!vars, StatusOf, Calling

(* What becomes of the events: those of S get the status st, the others keep theirs. *)
Turns(S, st) == \A e \in Events : StatusOf(e)' = IF e \in S THEN st ELSE StatusOf(e)

LEMMA TurnsBecome == ASSUME NEW S, NEW st, Turns(S, st) PROVE Dispatching!Become(S, st)
<1>1. [e \in Events |-> StatusOf(e)'] = [e \in Events |-> IF e \in S THEN st ELSE StatusOf(e)]
  BY DEF Turns
<1>2. \A e \in Events : [x \in Events |-> StatusOf(x)][e] = StatusOf(e)
  OBVIOUS
<1>3. [e \in Events |-> StatusOf(e)']
        = [e \in Events |-> IF e \in S THEN st ELSE [x \in Events |-> StatusOf(x)][e]]
  BY <1>1, <1>2
<1> QED
  BY <1>3 DEF Dispatching!Become, StatusOf

LEMMA Adds ==
  ASSUME NEW e \in Events, StatusOf(e) = "absent", Turns({e}, "idle"), Calling' = Calling
  PROVE  DNext
<1>1. Dispatching!Become({e}, "idle")
  BY TurnsBecome
<1>2. Dispatching!Add(e)
  BY <1>1 DEF Dispatching!Add, StatusOf, Calling
<1> QED
  BY <1>2 DEF DNext, Dispatching!Next

LEMMA Removes ==
  ASSUME NEW S \in SUBSET Events, Turns(S, "absent"), Calling' = Calling
  PROVE  DNext
<1>1. Dispatching!Become(S, "absent")
  BY TurnsBecome
<1>2. Dispatching!Remove(S)
  BY <1>1 DEF Dispatching!Remove, Calling
<1> QED
  BY <1>2 DEF DNext, Dispatching!Next

LEMMA GetsReady ==
  ASSUME NEW S \in SUBSET Events, \A e \in S : StatusOf(e) = "idle", Turns(S, "ready"),
         Calling' = Calling
  PROVE  DNext
<1>1. Dispatching!Become(S, "ready")
  BY TurnsBecome
<1>2. S \subseteq Dispatching!With("idle")
  BY DEF Dispatching!With, StatusOf
<1>3. Dispatching!GetReady(S)
  BY <1>1, <1>2 DEF Dispatching!GetReady, Calling
<1> QED
  BY <1>3 DEF DNext, Dispatching!Next

LEMMA Calls ==
  ASSUME NEW e \in Events, Calling = {}, StatusOf(e) = "ready", Calling' = {e}, Turns({e}, "idle")
  PROVE  DNext
<1>1. Dispatching!Become({e}, "idle")
  BY TurnsBecome
<1>2. Dispatching!Call(e)
  BY <1>1 DEF Dispatching!Call, StatusOf, Calling
<1> QED
  BY <1>2 DEF DNext, Dispatching!Next

LEMMA ReturnsFrom ==
  ASSUME NEW e \in Events, Calling = {e}, Calling' = {}, NEW S \in SUBSET {e}, Turns(S, "absent")
  PROVE  DNext
<1>1. Dispatching!Become(S, "absent")
  BY TurnsBecome
<1>2. Dispatching!Return(S)
  BY <1>1 DEF Dispatching!Return, Calling
<1>3. S \in SUBSET Events
  OBVIOUS
<1> QED
  BY <1>2, <1>3 DEF DNext, Dispatching!Next

LEMMA FailsIn ==
  ASSUME NEW e \in Events, Calling = {e}, Calling' = {}, NEW S \in SUBSET Events,
         \A x \in Events : StatusOf(x)' = IF x \in S /\ StatusOf(x) = "ready"
                                          THEN "idle" ELSE StatusOf(x)
  PROVE  DNext
<1> DEFINE R == S \cap Dispatching!With("ready")
<1>1. R = {x \in S : StatusOf(x) = "ready"}
  BY DEF Dispatching!With, StatusOf
<1>2. Turns(R, "idle")
  BY <1>1 DEF Turns
<1>3. Dispatching!Become(R, "idle")
  BY <1>2, TurnsBecome
<1>4. Dispatching!Fail(S)
  BY <1>3 DEF Dispatching!Fail, Calling
<1> QED
  BY <1>4 DEF DNext, Dispatching!Next

-----------------------------------------------------------------------------

LEMMA InitDispatches == Init => Dispatching!Init
<1> SUFFICES ASSUME Init PROVE Dispatching!Init
  OBVIOUS
<1>1. (\A e \in Events : ~ev[e].known) /\ ~InCallback
  BY FreshIs DEF Init, InCallback
<1>2. [e \in Events |-> StatusOf(e)] = [e \in Events |-> "absent"] /\ Calling = {}
  BY <1>1 DEF StatusOf, Calling
<1> QED
  BY <1>2 DEF Dispatching!Init, StatusOf, Calling

(* Steps that leave the events and the callback that runs alone. *)
LEMMA StillDispatches ==
  ASSUME UNCHANGED <<ev, abandoned>>, InCallback' <=> InCallback, InCallback => list' = list
  PROVE  DNext
<1>1. \A e \in Events : StatusOf(e)' = StatusOf(e)
  BY DEF StatusOf
<1>2. Calling' = Calling
  BY DEF Calling
<1> QED
  BY <1>1, <1>2, Stutters

LEMMA QuietDispatches ==
  ASSUME IInv, MarksSound,
         \/ Interrupt \/ Stop \/ TriggerHangs \/ LoopBegins \/ LoopEnds \/ Resume
         \/ ScanBreaks \/ ScanPasses \/ ScanEnds \/ ExpireEnds \/ LoopTimesOut \/ ListEnds \/ InterruptReturns
         \/ (\E limit \in Limits : EnterSelect(limit))
         \/ (\E fds \in SUBSET FdEvents : SelectFinds(fds))
         \/ SelectTimesOut \/ SelectIsInterrupted
  PROVE  DNext
<1>1. CASE TriggerHangs
  <2>1. /\ at' = "hung" /\ UNCHANGED <<ev, abandoned, list>> /\ VmFree
    BY <1>1 DEF TriggerHangs
  <2>2. at = "callback" <=> list # Nil
    BY <2>1 DEF VmFree, InSelect, MarksSound, Holding, IInv, FlagsSound
  <2> QED
    BY <2>1, <2>2, StillDispatches DEF InCallback, VmFree, InSelect
<1>2. CASE Interrupt \/ Stop
  BY <1>2, StillDispatches DEF Interrupt, Stop, InCallback
<1>3. CASE \/ LoopBegins \/ LoopEnds \/ Resume
           \/ ScanBreaks \/ ScanPasses \/ ScanEnds
           \/ ExpireEnds \/ LoopTimesOut \/ ListEnds \/ InterruptReturns
           \/ (\E limit \in Limits : EnterSelect(limit))
           \/ (\E fds \in SUBSET FdEvents : SelectFinds(fds))
           \/ SelectTimesOut \/ SelectIsInterrupted
  <2>1. UNCHANGED <<ev, abandoned>> /\ ~InCallback /\ ~InCallback'
    BY <1>3 DEF LoopBegins, LoopEnds, Resume, ScanBreaks, ScanPasses, ScanEnds, Scanning,
                ExpireEnds, LoopTimesOut, ListEnds, InterruptReturns, EnterSelect, SelectFinds, SelectTimesOut,
                SelectIsInterrupted, InCallback
  <2> QED
    BY <2>1, StillDispatches
<1> QED
  BY <1>1, <1>2, <1>3

(* The event whose callback runs is the head of the list of the loop. *)
LEMMA CallbackInList ==
  ASSUME IInv, NEW s, NEW o, ListsSound(s, o), at = "callback" \/ list # Nil
  PROVE  list \in ToSet(s) /\ list \in Events /\ ev[list].active
<1>1. list # Nil
  BY DEF IInv, FlagsSound
<1> QED
  BY <1>1, LinksTail DEF ListsSound

LEMMA CallsDispatch ==
  ASSUME IInv, MarksSound, NEW s, NEW o, ListsSound(s, o), NEW e \in Events,
         \/ Del(e) \/ Change(e)
         \/ \E msec \in {"none", "finite", "infinite"} : Add(e, msec) \/ SetTimeout(e, msec)
  PROVE  DNext
<1>1. CASE Del(e)
  <2>1. /\ UNCHANGED <<at, list, abandoned>> /\ \A x \in Events \ {e} : Alike(ev'[x], ev[x])
        /\ ~ev'[e].known \/ ev'[e].delete
    BY <1>1, DelIs
  <2>2. Calling' = Calling /\ Turns({e}, "absent")
    BY <2>1 DEF Calling, InCallback, Turns, StatusOf, Alike
  <2> QED
    BY <2>2, Removes
<1>2. CASE \E msec \in {"none", "finite", "infinite"} : Add(e, msec)
  <2>1. /\ ~ev[e].known /\ UNCHANGED <<at, list, abandoned>>
        /\ \A x \in Events \ {e} : ev'[x] = ev[x]
        /\ ~ev'[e].active /\ ev'[e].known /\ ~ev'[e].delete
    BY <1>2, AddIs
  <2>2. Calling' = Calling /\ Turns({e}, "idle") /\ StatusOf(e) = "absent"
    BY <2>1 DEF Calling, InCallback, Turns, StatusOf
  <2> QED
    BY <2>2, Adds
<1>3. CASE Change(e) \/ \E msec \in {"none", "finite", "infinite"} : SetTimeout(e, msec)
  <2>1. /\ UNCHANGED <<at, list, abandoned>> /\ \A x \in Events \ {e} : ev'[x] = ev[x]
        /\ ev'[e].active = ev[e].active /\ ev'[e].known = ev[e].known /\ ev'[e].delete = ev[e].delete
    BY <1>3, TimedIs
  <2>2. Calling' = Calling /\ \A x \in Events : StatusOf(x)' = StatusOf(x)
    BY <2>1 DEF Calling, InCallback, StatusOf
  <2> QED
    BY <2>2, Stutters
<1> QED
  BY <1>1, <1>2, <1>3

LEMMA TriggerDispatches ==
  ASSUME IInv, MarksSound, NEW s, NEW o, ListsSound(s, o), Trigger \/ TriggerEnd
  PROVE  DNext
<1>1. PICK W : W = ToSet(watching)
  OBVIOUS
<1>2. /\ W \subseteq Events /\ UNCHANGED <<at, list, abandoned>>
      /\ \A x \in W : ~ev[x].active
      /\ \A x \in Events \ W : ev'[x] = ev[x]
      /\ \A x \in W : ev'[x].active /\ ev'[x].known /\ ev[x].known /\ ~ev'[x].delete /\ ~ev[x].delete
  BY <1>1, TriggerIs, Bases
<1>3. W \cap abandoned = {}
  BY <1>2 DEF ListsSound
<1>4. InCallback => list \notin W
  BY <1>2, CallbackInList DEF InCallback
<1>5. Calling' = Calling /\ (\A x \in W : StatusOf(x) = "idle") /\ Turns(W, "ready")
  BY <1>2, <1>3, <1>4 DEF Calling, InCallback, StatusOf, Turns
<1> QED
  BY <1>2, <1>5, GetsReady

LEMMA ListedDispatches ==
  ASSUME IInv, MarksSound, Untimed, NEW s, NEW o, ListsSound(s, o),
         ScanFinds \/ \E e \in Events : Expire(e)
  PROVE  DNext
<1>1. PICK e \in Events :
        /\ at \in {"poll", "expire"} /\ at' = at /\ abandoned' = abandoned \ {e}
        /\ ev[e].known /\ ~ev[e].delete
        /\ \A x \in Events \ {e} : Alike(ev'[x], ev[x])
        /\ ev'[e].active /\ ev'[e].known /\ ~ev'[e].delete
        /\ e \notin ToSet(s) /\ e \notin ToSet(o)
  <2>1. CASE ScanFinds
    <3>1. PICK e : e = events[i]
      OBVIOUS
    <3>2. Members(list) = ToSet(s)
      BY LinkedMembers DEF ListsSound
    <3>3. /\ e \in Events /\ e \in FdEvents /\ at = "poll" /\ at' = at /\ i \in 1..sel.npolls
          /\ abandoned' = abandoned \ {e} /\ e \notin Members(list)
          /\ ev[e].known /\ ~ev[e].delete
          /\ \A x \in Events \ {e} : Alike(ev'[x], ev[x])
          /\ ev'[e].active /\ ev'[e].known /\ ~ev'[e].delete
      BY <2>1, <3>1, ScanFindsIs
    <3>4. e \notin ToSet(s) /\ e \notin ToSet(o)
      BY <3>1, <3>2, <3>3, Bases DEF ListsSound
    <3> QED
      BY <3>3, <3>4
  <2>2. CASE \E e \in Events : Expire(e)
    <3>1. PICK e \in Events : Expire(e)
      BY <2>2
    <3>2. /\ at = "expire" /\ e \in due /\ e \in Deadlines /\ at' = at
          /\ abandoned' = abandoned \ {e}
          /\ ev[e].known /\ ~ev[e].delete
          /\ \A x \in Events \ {e} : ev'[x] = ev[x]
          /\ ev'[e].active /\ ev'[e].known /\ ~ev'[e].delete
      BY <3>1, ExpireIs
    <3>3. e \notin ToSet(s) /\ e \notin ToSet(o)
      BY <3>2 DEF ListsSound, Untimed
    <3> QED
      BY <3>2, <3>3 DEF Alike
  <2> QED
    BY <2>1, <2>2
<1>2. ~InCallback /\ ~InCallback'
  BY <1>1 DEF InCallback
<1>3. ev[e].active => e \in abandoned
  BY <1>1 DEF ListsSound
<1>4. StatusOf(e) = "idle" /\ Calling' = Calling
  BY <1>1, <1>2, <1>3 DEF StatusOf, Calling
<1>5. Turns({e}, "ready")
  BY <1>1, <1>2 DEF Turns, StatusOf, Alike
<1> QED
  BY <1>4, <1>5, GetsReady

LEMMA MergeDispatches ==
  ASSUME IInv, NEW s, NEW o, ListsSound(s, o), Merge
  PROVE  DNext
<1>1. ~InCallback /\ ~InCallback' /\ abandoned' = abandoned
  BY MergeIs DEF Merge, InCallback
<1>2. \A e \in Events : StatusOf(e)' = StatusOf(e)
  BY <1>1, MergeIs DEF StatusOf
<1> QED
  BY <1>1, <1>2, Stutters DEF Calling

LEMMA CallDispatches ==
  ASSUME IInv, MarksSound, NEW s, NEW o, ListsSound(s, o), Call
  PROVE  DNext
<1>1. /\ at = "list" /\ list # Nil /\ ~ev[list].delete /\ at' \in {"callback", "crashed"}
      /\ UNCHANGED <<ev, list, abandoned>>
  BY DEF Call
<1>2. PICK e : e = list
  OBVIOUS
<1>3. e \in Events /\ ev[e].active /\ ev[e].known /\ ~ev[e].delete /\ e \notin abandoned
  <2>1. e \in ToSet(s) /\ e \in Events /\ ev[e].active
    BY <1>1, <1>2, CallbackInList
  <2> QED
    BY <1>1, <1>2, <2>1 DEF ListsSound, MarksSound
<1>4. CASE at' = "callback"
  <2>1. ~InCallback /\ InCallback'
    BY <1>1, <1>4 DEF InCallback
  <2>2. Calling = {} /\ Calling' = {e} /\ StatusOf(e) = "ready" /\ Turns({e}, "idle")
    BY <1>1, <1>2, <1>3, <2>1 DEF Calling, StatusOf, Turns
  <2> QED
    BY <1>3, <2>2, Calls
<1>5. CASE at' = "crashed"
  BY <1>1, <1>5, StillDispatches DEF InCallback
<1> QED
  BY <1>1, <1>4, <1>5

LEMMA PassOverDispatches ==
  ASSUME IInv, MarksSound, PassOver
  PROVE  DNext
<1>1. /\ at = "list" /\ at' = "list" /\ list \in Events /\ ev[list].delete /\ ev'[list] = Fresh
      /\ \A x \in Events \ {list} : ev'[x] = ev[x]
      /\ abandoned' = abandoned
  BY PassOverIs
<1>2. \A e \in Events : StatusOf(e)' = StatusOf(e)
  BY <1>1, FreshIs DEF StatusOf, InCallback
<1> QED
  BY <1>1, <1>2, Stutters DEF Calling, InCallback

LEMMA CallbackReturnsDispatches ==
  ASSUME IInv, MarksSound, CallbackReturns
  PROVE  DNext
<1>1. PICK e : e = list
  OBVIOUS
<1>2. /\ at = "callback" /\ at' = "list" /\ e \in Events
      /\ \A x \in Events \ {e} : ev'[x] = ev[x]
      /\ abandoned' = abandoned
      /\ ~ev'[e].active
      /\ ev[e].evq => ev'[e].known = ev[e].known /\ ev'[e].delete = ev[e].delete
      /\ ~ev[e].evq => ev'[e] = Fresh
  BY <1>1, CallbackReturnsIs
<1>3. InCallback /\ ~InCallback' /\ Calling = {e} /\ Calling' = {}
  BY <1>1, <1>2 DEF InCallback, Calling
<1>4. \A x \in Events \ {e} : StatusOf(x)' = StatusOf(x)
  BY <1>1, <1>2, <1>3 DEF StatusOf
<1>5. CASE ev[e].evq
  <2>1. StatusOf(e)' = StatusOf(e)
    BY <1>1, <1>2, <1>3, <1>5 DEF StatusOf
  <2>2. Turns({}, "absent")
    BY <1>4, <2>1 DEF Turns
  <2> QED
    BY <1>2, <1>3, <2>2, ReturnsFrom
<1>6. CASE ~ev[e].evq
  <2>1. StatusOf(e)' = "absent"
    BY <1>2, <1>6, FreshIs DEF StatusOf
  <2>2. Turns({e}, "absent")
    BY <1>4, <2>1 DEF Turns
  <2> QED
    BY <1>2, <1>3, <2>2, ReturnsFrom
<1> QED
  BY <1>5, <1>6

LEMMA CallbackFailsDispatches ==
  ASSUME IInv, MarksSound, NEW s, NEW o, ListsSound(s, o), CallbackFails
  PROVE  DNext
<1>1. PICK e : e = list
  OBVIOUS
<1>2. /\ at = "callback" /\ at' = "out" /\ abandoned' = abandoned \cup Members(list)
      /\ UNCHANGED ev
  BY DEF CallbackFails
<1>3. Members(list) = ToSet(s) /\ ToSet(s) \subseteq Events
  BY LinkedMembers DEF ListsSound
<1>4. e \in Events /\ e \in ToSet(s)
  BY <1>1, <1>2, CallbackInList
<1>5. InCallback /\ ~InCallback' /\ Calling = {e} /\ Calling' = {}
  BY <1>1, <1>2 DEF InCallback, Calling
<1>6. \A x \in Events : StatusOf(x)' = IF x \in ToSet(s) /\ StatusOf(x) = "ready"
                                         THEN "idle" ELSE StatusOf(x)
  BY <1>1, <1>2, <1>3, <1>4, <1>5 DEF StatusOf
<1> QED
  BY <1>3, <1>4, <1>5, <1>6, FailsIn

LEMMA StepDispatches == ASSUME Untimed, ListsInv, [Next]_vars PROVE DNext
<1>1. IInv /\ MarksSound
  BY DEF ListsInv
<1>2. PICK s, o \in Seq(Events) : ListsSound(s, o)
  BY DEF ListsInv
<1>3. CASE ProgramCalls
  BY <1>1, <1>2, <1>3, CallsDispatch, TriggerDispatches, QuietDispatches DEF ProgramCalls
<1>4. CASE LoopSteps
  BY <1>1, <1>2, <1>4, QuietDispatches, ListedDispatches, MergeDispatches, CallDispatches,
     PassOverDispatches DEF LoopSteps
<1>5. CASE Returns
  BY <1>1, <1>5, QuietDispatches DEF Returns
<1>6. CASE Callbacks
  BY <1>1, <1>2, <1>6, QuietDispatches, CallbackReturnsDispatches, CallbackFailsDispatches
     DEF Callbacks
<1>7. CASE UNCHANGED vars
  BY <1>7, StillDispatches DEF vars, InCallback
<1> QED
  BY <1>3, <1>4, <1>5, <1>6, <1>7 DEF Next

(* The queue implements a dispatcher, for any events, none of them of an object and  *)
(* with a deadline at once: an event is called only while the program has it, only   *)
(* after it became ready, and once each time it did, whatever is deleted, restarted, *)
(* triggered or added while the loop works through its list.                         *)
THEOREM QueueDispatches == ASSUME Untimed PROVE Spec => ImplementsDispatcher
<1>1. Init => Dispatching!Init
  BY InitDispatches
<1>2. ListsInv /\ [Next]_vars => [Dispatching!Next]_(Dispatching!vars)
  BY StepDispatches DEF DNext
<1> QED
  BY <1>1, <1>2, ListsInvHolds, PTL DEF Spec, ImplementsDispatcher, Dispatching!Spec

-----------------------------------------------------------------------------
(* Events found expired *)

(* Only the events of descriptors can lose their timeouts (see Timeouts). *)
NoFdDeadlines == Deadlines \cap FdEvents = {}

(* An event found expired is in a list and has a timeout as long as it is called. *)
ExpirySound(e, r) == /\ r.tq = "finite" => e \in Deadlines
                     /\ r.expired => r.active /\ e \notin FdEvents /\ (r.tq # "none" \/ r.delete)

FaultInv == /\ at # "crashed"
            /\ at = "expire" => due \subseteq Finite
            /\ \A e \in Events : ExpirySound(e, ev[e])

LEMMA FreshExpiry == ASSUME NEW e PROVE ExpirySound(e, Fresh)
BY FreshIs DEF ExpirySound

LEMMA AddedExpiry ==
  ASSUME NEW e \in Events, NEW msec \in Timeouts(e), NEW k, NEW f, IsAdded(f, msec, k)
  PROVE  ExpirySound(e, f)
<1>1. ~f.expired /\ f.tq = msec
  BY DEF IsAdded, Fresh
<1>2. msec = "finite" => e \in Deadlines
  BY DEF Timeouts
<1> QED
  BY <1>1, <1>2 DEF ExpirySound

LEMMA MovedExpiry ==
  ASSUME NEW e, NEW r \in Event, ExpirySound(e, r), NEW k, NEW f, IsMoved(f, r, k)
  PROVE  ExpirySound(e, f) /\ f.expired = r.expired /\ f.delete = r.delete
<1>1. f.tq = r.tq /\ f.expired = r.expired /\ f.active = r.active /\ f.delete = r.delete
  BY DEF IsMoved, Event
<1> QED
  BY <1>1 DEF ExpirySound

LEMMA LeftExpiry ==
  ASSUME NEW e, NEW r \in Event, ExpirySound(e, r), r.expired => r.delete, NEW f, IsLeft(f, r)
  PROVE  ExpirySound(e, f)
<1>1. f.tq = "none" /\ f.expired = r.expired /\ f.active = r.active /\ f.delete = r.delete
  BY DEF IsLeft, Event
<1> QED
  BY <1>1 DEF ExpirySound

(* An event that is linked, and one that is listed besides. *)
IsLinked(f, r, n) == f = [r EXCEPT !.next = n] \/ f = [r EXCEPT !.active = TRUE, !.next = n]

LEMMA LinkedExpiry ==
  ASSUME NEW e, NEW r \in Event, ExpirySound(e, r), NEW n, NEW f, IsLinked(f, r, n)
  PROVE  ExpirySound(e, f) /\ f.expired = r.expired /\ f.delete = r.delete /\ f.tq = r.tq
<1>1. /\ f.tq = r.tq /\ f.expired = r.expired /\ f.delete = r.delete
      /\ f.active = r.active \/ f.active
  BY DEF IsLinked, Event
<1> QED
  BY <1>1 DEF ExpirySound

LEMMA FoundExpiry ==
  ASSUME NEW e \in Deadlines \ FdEvents, NEW r \in Event, r.tq = "finite", r.active,
         NEW f, f = [r EXCEPT !.expired = TRUE]
  PROVE  ExpirySound(e, f) /\ f.tq = r.tq
<1>1. f.tq = r.tq /\ f.active = r.active
  BY DEF Event
<1> QED
  BY <1>1 DEF ExpirySound

LEMMA ReturnedExpiry ==
  ASSUME NEW e, NEW r \in Event, ExpirySound(e, r),
         NEW f, f = [r EXCEPT !.active = FALSE, !.expired = FALSE, !.next = Nil]
  PROVE  ExpirySound(e, f)
<1>1. f.tq = r.tq /\ ~f.expired
  BY DEF Event
<1> QED
  BY <1>1 DEF ExpirySound

LEMMA WantsExpiry ==
  ASSUME NEW e, NEW r \in Event, ExpirySound(e, r), NEW f, NEW b, f = [r EXCEPT !.wants = b]
  PROVE  ExpirySound(e, f)
<1>1. f.tq = r.tq /\ f.expired = r.expired /\ f.active = r.active /\ f.delete = r.delete
  BY DEF Event
<1> QED
  BY <1>1 DEF ExpirySound

LEMMA TimedExpiry ==
  ASSUME NEW e \in Events, NEW r \in Event, ExpirySound(e, r), NEW msec \in Timeouts(e),
         NEW f, f = [r EXCEPT !.tq = msec]
  PROVE  ExpirySound(e, f)
<1>1. f.tq = msec /\ f.expired = r.expired /\ f.active = r.active
  BY DEF Event
<1>2. msec = "none" => e \in FdEvents
  BY DEF Timeouts
<1>3. msec = "finite" => e \in Deadlines
  BY DEF Timeouts
<1> QED
  BY <1>1, <1>2, <1>3 DEF ExpirySound

LEMMA DeletedExpiry ==
  ASSUME NEW e, NEW r \in Event, ExpirySound(e, r), NEW f, f = [r EXCEPT !.delete = TRUE]
  PROVE  ExpirySound(e, f) /\ f.delete
<1>1. f.tq = r.tq /\ f.expired = r.expired /\ f.active = r.active /\ f.delete
  BY DEF Event
<1> QED
  BY <1>1 DEF ExpirySound

(* Steps that find nothing expired. *)
LEMMA ExpiryStays ==
  ASSUME FaultInv, at' # "crashed", \A e \in Events : ExpirySound(e, ev'[e]),
         at' = "expire" => due' \subseteq Finite'
  PROVE  FaultInv'
BY DEF FaultInv

(* Steps that change one event, while the VM is free or the loop is not among timers. *)
LEMMA OneExpiry ==
  ASSUME FaultInv, at' \notin {"crashed", "expire"}, NEW e \in Events,
         \A x \in Events \ {e} : ev'[x] = ev[x], ExpirySound(e, ev'[e])
  PROVE  FaultInv'
<1>1. \A x \in Events : ExpirySound(x, ev'[x])
  BY DEF FaultInv
<1> QED
  BY <1>1, ExpiryStays

LEMMA SoundEvent ==
  ASSUME IInv, FaultInv, NEW e \in Events
  PROVE  ev[e] \in Event /\ ExpirySound(e, ev[e]) /\ ev \in [Events -> Event]
BY Bases DEF FaultInv

LEMMA evq_delExpiry ==
  ASSUME NEW e \in FdEvents, NEW evs \in [Events -> Event], evq_del(e, evs),
         \A x \in Events : ExpirySound(x, evs[x]), evs[e].expired => evs[e].delete
  PROVE  \A x \in Events : ExpirySound(x, ev'[x])
<1> DEFINE k == ev[e].index
           moved == events[npolls]
<1>0. e \in Events
  BY DEF Events
<1>1. CASE k < npolls
  <2>1. ev' = [evs EXCEPT ![moved].index = k, ![e].evq = FALSE, ![e].tq = "none"]
    BY <1>1 DEF evq_del
  <2> HIDE DEF k, moved
  <2> DEFINE a == [evs EXCEPT ![moved].index = k]
  <2>2. a \in [Events -> {a[x] : x \in Events}] /\ DOMAIN a = Events
    OBVIOUS
  <2>3. \A x \in Events : a[x] = evs[x] \/ IsMoved(a[x], evs[x], k)
    BY DEF IsMoved
  <2>4. ev' = [a EXCEPT ![e] = [a[e] EXCEPT !.evq = FALSE, !.tq = "none"]]
    BY <2>1, <1>0
  <2> HIDE DEF a
  <2>5. ASSUME NEW x \in Events
        PROVE  ExpirySound(x, a[x]) /\ a[x].expired = evs[x].expired /\ a[x].delete = evs[x].delete
    <3>1. evs[x] \in Event /\ ExpirySound(x, evs[x])
      OBVIOUS
    <3> QED
      BY <2>3, <3>1, MovedExpiry
  <2>6. ev'[e] = [a[e] EXCEPT !.evq = FALSE, !.tq = "none"] /\ \A x \in Events \ {e} : ev'[x] = a[x]
    BY <2>2, <2>4, <1>0
  <2>7. ev'[e].tq = "none" /\ ev'[e].expired = evs[e].expired
        /\ ev'[e].active = evs[e].active /\ ev'[e].delete = evs[e].delete
    <3>1. CASE a[e] = evs[e]
      BY <3>1, <2>6, <1>0 DEF Event
    <3>2. CASE a[e] = [evs[e] EXCEPT !.index = k]
      BY <3>2, <2>6, <1>0 DEF Event
    <3> QED
      BY <3>1, <3>2, <2>3, <1>0 DEF IsMoved
  <2>8. ExpirySound(e, evs[e])
    BY <1>0
  <2>9. ExpirySound(e, ev'[e])
    BY <2>7, <2>8 DEF ExpirySound
  <2> QED
    BY <2>5, <2>6, <2>9
<1>2. CASE ~(k < npolls)
  <2>1. ev' = [evs EXCEPT ![e].evq = FALSE, ![e].tq = "none"]
    BY <1>2 DEF evq_del
  <2>2. IsLeft(ev'[e], evs[e]) /\ \A x \in Events \ {e} : ev'[x] = evs[x]
    BY <2>1, <1>0 DEF IsLeft
  <2>3. evs[e] \in Event /\ ExpirySound(e, evs[e])
    BY <1>0
  <2>4. ExpirySound(e, ev'[e])
    BY <2>2, <2>3, LeftExpiry
  <2> QED
    BY <2>2, <2>4
<1> QED
  BY <1>1, <1>2

LEMMA DelExpiry == ASSUME IInv, FaultInv, NEW e \in Events, Del(e) PROVE FaultInv'
<1> DEFINE L == Leaves(e)
<1>1. L \in [Events -> Event] /\ \A x \in Events \ {e} : L[x] = ev[x]
  BY LeavesIsEvent
<1>2. at' \notin {"crashed", "expire"}
  BY DEF Del, VmFree, InSelect
<1>3. ExpirySound(e, L[e]) /\ (L[e].expired => L[e].delete)
  <2>1. CASE ev[e].active
    <3>1. L[e] = [ev[e] EXCEPT !.delete = TRUE]
      BY <2>1, SoundEvent DEF Leaves
    <3> HIDE DEF L
    <3> QED
      BY <3>1, SoundEvent, DeletedExpiry
  <2>2. CASE ~ev[e].active
    <3>1. L[e] = Fresh
      BY <2>2, SoundEvent DEF Leaves
    <3> QED
      BY <3>1, FreshExpiry, FreshIs
  <2> QED
    BY <2>1, <2>2
<1>4. \A x \in Events : ExpirySound(x, L[x])
  BY <1>1, <1>3, SoundEvent
<1>5. CASE ~ev[e].evq
  <2>1. ev' = L
    BY <1>5 DEF Del
  <2> QED
    BY <2>1, <1>2, <1>4, ExpiryStays
<1>6. CASE ev[e].evq /\ e \in FdEvents
  <2>1. evq_del(e, L)
    BY <1>6 DEF Del
  <2> HIDE DEF L
  <2>2. \A x \in Events : ExpirySound(x, ev'[x])
    BY <2>1, <1>1, <1>3, <1>4, <1>6, evq_delExpiry
  <2> QED
    BY <2>2, <1>2, ExpiryStays
<1>7. CASE ev[e].evq /\ e \notin FdEvents
  <2>1. ev' = [L EXCEPT ![e].evq = FALSE, ![e].tq = "none"]
    BY <1>7 DEF Del, evq_del_timer
  <2> HIDE DEF L
  <2>2. IsLeft(ev'[e], L[e]) /\ \A x \in Events \ {e} : ev'[x] = L[x]
    BY <2>1, <1>1 DEF IsLeft
  <2>3. ExpirySound(e, ev'[e])
    BY <2>2, <1>1, <1>3, LeftExpiry
  <2> QED
    BY <2>2, <2>3, <1>1, <1>2, OneExpiry
<1> QED
  BY <1>5, <1>6, <1>7

LEMMA TimesExpiry ==
  ASSUME IInv, FaultInv, NEW e \in Events, NEW msec \in {"none", "finite", "infinite"},
         Add(e, msec) \/ SetTimeout(e, msec) \/ Change(e)
  PROVE  FaultInv'
<1>1. at' \notin {"crashed", "expire"}
  BY DEF Add, SetTimeout, Change, VmFree, InSelect
<1>2. ev \in [Events -> Event] /\ ev[e] \in Event /\ ExpirySound(e, ev[e])
  BY SoundEvent
<1>3. CASE Add(e, msec)
  <2> DEFINE k == IF e \in FdEvents THEN npolls + 1 ELSE 0
  <2>1. msec \in Timeouts(e) /\ ev' = [ev EXCEPT ![e] = [Fresh EXCEPT !.known = TRUE, !.evq = TRUE,
                                                               !.tq = msec, !.index = k]]
    BY <1>3 DEF Add
  <2>2. IsAdded(ev'[e], msec, k) /\ \A x \in Events \ {e} : ev'[x] = ev[x]
    BY <2>1, <1>2 DEF IsAdded
  <2> HIDE DEF k
  <2>3. ExpirySound(e, ev'[e])
    BY <2>1, <2>2, AddedExpiry
  <2> QED
    BY <2>2, <2>3, <1>1, OneExpiry
<1>4. CASE SetTimeout(e, msec)
  <2>1. msec \in Timeouts(e) /\ ev' = [ev EXCEPT ![e].tq = msec]
    BY <1>4 DEF SetTimeout
  <2>2. ev'[e] = [ev[e] EXCEPT !.tq = msec] /\ \A x \in Events \ {e} : ev'[x] = ev[x]
    BY <2>1, <1>2
  <2>3. ExpirySound(e, ev'[e])
    BY <2>1, <2>2, <1>2, TimedExpiry
  <2> QED
    BY <2>2, <2>3, <1>1, OneExpiry
<1>5. CASE Change(e)
  <2>1. ev' = [ev EXCEPT ![e].wants = ~@]
    BY <1>5 DEF Change
  <2>2. ev'[e] = [ev[e] EXCEPT !.wants = ~ev[e].wants] /\ \A x \in Events \ {e} : ev'[x] = ev[x]
    BY <2>1, <1>2
  <2>3. ExpirySound(e, ev'[e])
    BY <2>2, <1>2, WantsExpiry
  <2> QED
    BY <2>2, <2>3, <1>1, OneExpiry
<1> QED
  BY <1>3, <1>4, <1>5

LEMMA PushedExpiry ==
  ASSUME IInv, FaultInv, NEW e \in Events
  PROVE  ExpirySound(e, Pushed(ev)[e]) /\ Pushed(ev)[e].expired = ev[e].expired
<1>1. Pushed(ev)[e] = ev[e] \/ \E n : IsLinked(Pushed(ev)[e], ev[e], n)
  BY DEF Pushed, IsLinked
<1> QED
  BY <1>1, SoundEvent, LinkedExpiry

LEMMA TriggerExpiry == ASSUME IInv, FaultInv, Trigger \/ TriggerEnd PROVE FaultInv'
<1>1. CanTrigger /\ at' \notin {"crashed", "expire"}
  BY DEF Trigger, TriggerEnd, CanTrigger, VmFree, InSelect
<1>2. CASE Trigger
  <2>1. ev' = Pushed(ev)
    BY <1>2 DEF Trigger
  <2> QED
    BY <2>1, <1>1, PushedExpiry, ExpiryStays
<1>3. CASE TriggerEnd
  <2>1. ev' = [e \in Events |-> IF e \in ToSet(watching)
                             THEN [Pushed(ev)[e] EXCEPT !.evq = FALSE, !.tq = "none"] ELSE ev[e]]
    BY <1>3 DEF TriggerEnd
  <2>2. ASSUME NEW x \in Events, x \in ToSet(watching) PROVE ExpirySound(x, ev'[x])
    <3>1. IsLeft(ev'[x], Pushed(ev)[x])
      BY <2>1, <2>2 DEF IsLeft
    <3>2. ~ev[x].active
      BY <2>2, <1>1 DEF CanTrigger, ToSet
    <3>3. ~Pushed(ev)[x].expired
      BY <3>2, SoundEvent, PushedExpiry DEF ExpirySound
    <3>4. Pushed(ev)[x] \in Event /\ ExpirySound(x, Pushed(ev)[x])
      BY PushedIsEvent, PushedExpiry
    <3> QED
      BY <3>1, <3>3, <3>4, LeftExpiry
  <2>3. ASSUME NEW x \in Events, x \notin ToSet(watching) PROVE ExpirySound(x, ev'[x])
    BY <2>1, <2>3, SoundEvent
  <2> QED
    BY <2>2, <2>3, <1>1, ExpiryStays
<1> QED
  BY <1>2, <1>3

LEMMA ScanFindsExpiry == ASSUME IInv, FaultInv, ScanFinds PROVE FaultInv'
<1> DEFINE e == events[i]
           L == Listed(e)
<1>1. at = "poll" /\ at' = "poll" /\ i <= sel.npolls /\ e \in hit
  BY DEF ScanFinds, Scanning, Found
<1>2. e \in FdEvents
  <2>1. i \in 1..sel.npolls /\ sel.npolls <= N
    BY <1>1 DEF IInv, TypeOK, ScanSound
  <2> QED
    BY <2>1, <1>1, FoundIsKnown
<1>3. e \in Events
  BY <1>2 DEF Events
<1>4. /\ e \in OneShot => evq_del(e, L)
      /\ e \notin OneShot => ev' = L
  BY DEF ScanFinds
<1>5. L \in [Events -> Event] /\ \A x \in Events \ {e} : L[x] = ev[x]
  BY <1>3, ListedIsEvent
<1>6. ExpirySound(e, L[e])
  <2>1. IsLinked(L[e], ev[e], list) /\ ev[e] \in Event /\ ExpirySound(e, ev[e])
    BY <1>3, SoundEvent DEF Listed, IsLinked
  <2> HIDE DEF L, e
  <2> QED
    BY <2>1, LinkedExpiry
<1>7. \A x \in Events : ExpirySound(x, L[x])
  BY <1>5, <1>6, SoundEvent
<1>8. ~L[e].expired
  BY <1>2, <1>6 DEF ExpirySound
<1> HIDE DEF L, e
<1>9. \A x \in Events : ExpirySound(x, ev'[x])
  BY <1>2, <1>4, <1>5, <1>7, <1>8, evq_delExpiry
<1> QED
  BY <1>1, <1>9, ExpiryStays

LEMMA ExpireExpiry == ASSUME IInv, NoFdDeadlines, FaultInv, NEW e \in Events, Expire(e) PROVE FaultInv'
<1> DEFINE L == Listed(e)
<1>1. /\ at = "expire" /\ at' = at /\ e \in due /\ due' = due \ {e}
      /\ ev' = [L EXCEPT ![e].expired = TRUE]
  BY DEF Expire
<1>2. ev[e].tq = "finite" /\ e \in Deadlines \ FdEvents
  BY <1>1, SoundEvent DEF FaultInv, Finite, ExpirySound, NoFdDeadlines
<1>3. L \in [Events -> Event] /\ \A x \in Events \ {e} : L[x] = ev[x]
  BY ListedIsEvent
<1>4. L[e].active /\ L[e].tq = "finite"
  BY <1>2, ListedIs
<1> HIDE DEF L
<1>5. ev'[e] = [L[e] EXCEPT !.expired = TRUE] /\ \A x \in Events \ {e} : ev'[x] = ev[x]
  BY <1>1, <1>3
<1>6. ExpirySound(e, ev'[e])
  BY <1>2, <1>3, <1>4, <1>5, FoundExpiry
<1>7. \A x \in Events : ExpirySound(x, ev'[x])
  BY <1>5, <1>6, SoundEvent
<1>8. due' \subseteq Finite'
  BY <1>1, <1>5 DEF FaultInv, Finite
<1> QED
  BY <1>1, <1>7, <1>8, ExpiryStays

LEMMA ListExpiry ==
  ASSUME IInv, FaultInv, Merge \/ Call \/ PassOver \/ CallbackReturns
  PROVE  FaultInv'
<1>1. CASE Merge
  <2>1. at' \notin {"crashed", "expire"}
    BY <1>1 DEF Merge, AfterMerge
  <2>2. ASSUME NEW x \in Events PROVE ExpirySound(x, ev'[x])
    <3>1. ev'[x] = ev[x] \/ IsLinked(ev'[x], ev[x], list)
      BY <1>1 DEF Merge, IsLinked
    <3> QED
      BY <3>1, SoundEvent, LinkedExpiry
  <2> QED
    BY <2>1, <2>2, ExpiryStays
<1>2. CASE Call
  <2>1. /\ list # Nil /\ ~ev[list].delete /\ ev' = ev
        /\ at' = IF ev[list].expired /\ ev[list].tq = "none" THEN "crashed" ELSE "callback"
    BY <1>2 DEF Call
  <2>2. ExpirySound(list, ev[list])
    BY <2>1, SoundEvent DEF IInv, TypeOK
  <2>3. at' = "callback"
    BY <2>1, <2>2 DEF ExpirySound
  <2> QED
    BY <2>1, <2>3, SoundEvent, ExpiryStays
<1>3. CASE PassOver
  BY <1>3, PassOverIs, FreshExpiry, OneExpiry
<1>4. CASE CallbackReturns
  <2> DEFINE r == [ev[list] EXCEPT !.active = FALSE, !.expired = FALSE, !.next = Nil]
  <2>1. at' = "list" /\ list \in Events /\ \A x \in Events \ {list} : ev'[x] = ev[x]
    BY <1>4, CallbackReturnsIs
  <2>2. ev'[list] = r \/ ev'[list] = Fresh
    BY <1>4, <2>1, SoundEvent DEF CallbackReturns
  <2>3. ExpirySound(list, ev'[list])
    BY <2>1, <2>2, SoundEvent, ReturnedExpiry, FreshExpiry
  <2> QED
    BY <2>1, <2>3, OneExpiry
<1> QED
  BY <1>1, <1>2, <1>3, <1>4

LEMMA QuietExpiry ==
  ASSUME IInv, FaultInv, ev' = ev, at' # "crashed",
         at' = "expire" => (at = "expire" /\ due' = due) \/ due' \subseteq Finite
  PROVE  FaultInv'
<1>1. Finite' = Finite
  BY DEF Finite
<1> QED
  BY <1>1, ExpiryStays DEF FaultInv

LEMMA FaultStep == ASSUME IInv, NoFdDeadlines, FaultInv, [Next]_vars PROVE FaultInv'
<1>1. CASE ProgramCalls
  <2>1. ASSUME NEW e \in Events, Del(e) \/ Change(e) PROVE FaultInv'
    BY <2>1, DelExpiry, TimesExpiry
  <2>2. ASSUME NEW e \in Events, NEW msec \in {"none", "finite", "infinite"},
               Add(e, msec) \/ SetTimeout(e, msec)
        PROVE  FaultInv'
    BY <2>2, TimesExpiry
  <2>3. CASE Interrupt \/ Stop \/ LoopBegins \/ TriggerHangs
    <3>1. ev' = ev /\ at' \notin {"crashed", "expire"}
      BY <2>3 DEF Interrupt, Stop, LoopBegins, TriggerHangs, VmFree, InSelect
    <3> QED
      BY <3>1, QuietExpiry
  <2> QED
    BY <1>1, <2>1, <2>2, <2>3, TriggerExpiry DEF ProgramCalls
<1>2. CASE LoopSteps
  <2>1. CASE Resume
    <3>1. ev' = ev /\ at' # "crashed" /\ (at' = "expire" => due' \subseteq Finite)
      BY <2>1 DEF Resume, MayBeDue
    <3> QED
      BY <3>1, QuietExpiry
  <2>2. CASE \/ LoopEnds \/ ScanBreaks \/ ScanPasses \/ ScanEnds
             \/ ExpireEnds \/ LoopTimesOut \/ ListEnds
             \/ \E limit \in Limits : EnterSelect(limit)
    <3>1. ev' = ev /\ at' \notin {"crashed", "expire"}
      BY <2>2 DEF LoopEnds, ScanBreaks, ScanPasses, ScanEnds, Scanning, ExpireEnds, LoopTimesOut,
                  ListEnds, EnterSelect
    <3> QED
      BY <3>1, QuietExpiry
  <2> QED
    BY <1>2, <2>1, <2>2, ScanFindsExpiry, ExpireExpiry, ListExpiry DEF LoopSteps
<1>3. CASE Returns \/ InterruptReturns \/ CallbackFails \/ UNCHANGED vars
  <2>1. /\ ev' = ev
        /\ at' \notin {"crashed", "expire"} \/ (at' = at /\ due' = due)
    BY <1>3 DEF Returns, SelectFinds, SelectTimesOut, SelectIsInterrupted, InterruptReturns,
                CallbackFails, vars
  <2> QED
    BY <2>1, QuietExpiry DEF FaultInv
<1>4. CASE CallbackReturns
  BY <1>4, ListExpiry
<1> QED
  BY <1>1, <1>2, <1>3, <1>4 DEF Next, Callbacks

(* In a program that gives deadlines only to timers and to events of objects the loop *)
(* never reads the queue of a timeout that has been taken away: whichever callback of *)
(* the same turn, or which other thread, deletes an event found expired or gives it   *)
(* another timeout, it has one as long as it may still be called.                     *)
THEOREM ExpiredKeepTimeouts == ASSUME NoFdDeadlines PROVE Spec => [](at # "crashed")
<1>1. Init => FaultInv
  BY FreshExpiry DEF Init, FaultInv
<1>2. IInv /\ FaultInv /\ [Next]_vars => FaultInv'
  BY FaultStep
<1>3. FaultInv => at # "crashed"
  BY DEF FaultInv
<1> QED
  BY <1>1, <1>2, <1>3, IInvHolds, PTL DEF Spec
=============================================================================
