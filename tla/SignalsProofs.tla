--------------------------- MODULE SignalsProofs ----------------------------
(* Handlers, lists and the count of a queue's signals, for any events and      *)
(* children, though a call or the loop is amid its writes when a signal comes. *)
EXTENDS Signals, SequenceFacts

-----------------------------------------------------------------------------
(* The inductive invariant: what holds between calls, and what is missing of it *)
(* in the steps of signal_add and signal_del.                                   *)

Linked == {e \in Events : (e \in evq /\ call # <<"adding", e>>) \/ call = <<"deleting", e>>}

CountsEvq == nevents = Cardinality({e \in evq : call # <<"adding", e>>})

ListsSound == \A s \in Signos : /\ IsInjective(g_SigEvents[s])
                                /\ ToSet(g_SigEvents[s]) = {e \in Linked : signo[e] = s}

CallSound == \A e \in Events :
  /\ call = <<"adding", e>> => e \in evq /\ action[signo[e]] = "handler" /\ g_SigEvents[signo[e]] = <<>>
  /\ call = <<"deleting", e>> => e \notin evq
  /\ call = <<"resetting", e>> => g_SigEvents[signo[e]] = <<>>

Agrees(s) == /\ g_SigEvents[s] # <<>> => action[s] # "default"
             /\ action[s] = "handler" => g_SigEvents[s] # <<>>

Excepted(s) == \E e \in Events : signo[e] = s /\ call \in {<<"adding", e>>, <<"resetting", e>>}

Core == /\ CountsEvq /\ ListsSound /\ CallSound
        /\ \A s \in Signos : Agrees(s) \/ Excepted(s)

(* What signal_actives has still to pass is not deleted yet: it deletes each event *)
(* itself, and nobody else can.                                                    *)
WalkSound == /\ IsInjective(walk) /\ ToSet(walk) \subseteq evq
             /\ walk # <<>> => at \in {"process"} \cup Ends

IInv == TypeOK /\ Core /\ evq \subseteq known /\ WalkSound

LEMMA Basics ==
  /\ IsFiniteSet(Events) /\ SIGCHLD \in Signos
  /\ signo \in [Events -> Signos]
BY SignalAssumption DEF signo, Signos

LEMMA InitHolds == Init => IInv
<1> SUFFICES ASSUME Init PROVE IInv
  OBVIOUS
<1>1. TypeOK
  BY EmptySeq DEF Init, TypeOK
<1>2. CountsEvq
  <2>1. {e \in evq : call # <<"adding", e>>} = {}
    BY DEF Init
  <2> QED
    BY <2>1, FS_EmptySet DEF Init, CountsEvq
<1>3. Linked = {}
  BY DEF Init, Linked
<1>4. Core
  BY <1>2, <1>3, EmptyAsSet DEF Init, Core, ListsSound, CallSound, Agrees
<1> QED
  BY <1>1, <1>4, EmptyAsSet DEF IInv, WalkSound, Init

(* The steps between which the handler can see no difference. *)
LEMMA CoreKept == Core /\ UNCHANGED <<evq, nevents, g_SigEvents, action, call>> => Core'
BY DEF Core, CountsEvq, ListsSound, Linked, CallSound, Agrees, Excepted

-----------------------------------------------------------------------------
(* Calls *)

LEMMA LinkKeeps ==
  ASSUME TypeOK, NEW e \in Events, g_SigEvents[signo[e]] = <<>> \/ call = <<>>,
         \A s \in Signos : /\ IsInjective(g_SigEvents[s])
                           /\ ToSet(g_SigEvents[s]) = {x \in evq' \ {e} : signo[x] = s},
         nevents = Cardinality(evq' \ {e}), e \in evq', evq' \subseteq Events,
         Link(e), call' = <<>>
  PROVE  /\ CountsEvq' /\ ListsSound'
         /\ g_SigEvents' \in [Signos -> Seq(Events)] /\ nevents' \in Nat
         /\ g_SigEvents'[signo[e]] # <<>>
         /\ \A s \in Signos \ {signo[e]} : g_SigEvents'[s] = g_SigEvents[s]
<1> DEFINE s == signo[e]
           list == g_SigEvents[s]
<1>1. s \in Signos /\ list \in Seq(Events)
  BY Basics DEF TypeOK
<1>2. /\ g_SigEvents' = [g_SigEvents EXCEPT ![s] = <<e>> \o list]
      /\ nevents' = nevents + 1
  BY DEF Link
<1>3. IsInjective(list) /\ e \notin ToSet(list) /\ ToSet(list) = {x \in evq' \ {e} : signo[x] = s}
  BY <1>1
<1>4. /\ <<e>> \o list \in Seq(Events) /\ IsInjective(<<e>> \o list)
      /\ ToSet(<<e>> \o list) = ToSet(list) \cup {e}
  BY <1>1, <1>3, Prepended
<1>5. <<e>> \o list # <<>>
  BY <1>4, EmptyAsSet
<1> HIDE DEF s, list
<1>6. g_SigEvents' \in [Signos -> Seq(Events)] /\ nevents' \in Nat
  BY <1>1, <1>2, <1>4 DEF TypeOK
<1>7. g_SigEvents'[s] = <<e>> \o list /\ \A x \in Signos \ {s} : g_SigEvents'[x] = g_SigEvents[x]
  BY <1>1, <1>2 DEF TypeOK
<1>8. Linked' = evq'
  BY DEF Linked
<1>9. ASSUME NEW x \in Signos
      PROVE  IsInjective(g_SigEvents'[x]) /\ ToSet(g_SigEvents'[x]) = {y \in Linked' : signo[y] = x}
  <2>1. CASE x = s
    BY <2>1, <1>3, <1>4, <1>7, <1>8 DEF s
  <2>2. CASE x # s
    <3>1. {y \in evq' \ {e} : signo[y] = x} = {y \in evq' : signo[y] = x}
      BY <2>2 DEF s
    <3> QED
      BY <2>2, <3>1, <1>7, <1>8
  <2> QED
    BY <2>1, <2>2
<1>10. CountsEvq'
  <2>1. IsFiniteSet(evq' \ {e})
    BY Basics, FS_Subset
  <2>2. (evq' \ {e}) \cup {e} = evq'
    OBVIOUS
  <2>3. Cardinality(evq') = nevents + 1
    BY <2>1, <2>2, FS_AddElement
  <2>4. {x \in evq' : call' # <<"adding", x>>} = evq'
    OBVIOUS
  <2> QED
    BY <2>3, <2>4, <1>2 DEF CountsEvq
<1> QED
  BY <1>5, <1>6, <1>7, <1>9, <1>10 DEF ListsSound, s

LEMMA AddKeeps == ASSUME IInv, NEW e \in Events, Add(e) PROVE IInv'
<1> DEFINE s == signo[e]
<1>1. /\ e \notin known /\ call = <<>> /\ at \in {"out", "select", "callback"}
      /\ known' = known \cup {e} /\ evq' = evq \cup {e}
      /\ UNCHANGED <<active, delete, at, set, todo, walk, current, pending, pipe, child>>
  BY DEF Add, VmFree, loop, world
<1>2. e \notin evq /\ s \in Signos /\ evq \subseteq Events
  BY <1>1, Basics DEF IInv, TypeOK
<1>3. evq' \subseteq known' /\ WalkSound'
  BY <1>1, EmptyAsSet DEF IInv, WalkSound, Ends
<1>4. CASE g_SigEvents[s] = <<>>
  <2>1. /\ action' = [action EXCEPT ![s] = "handler"] /\ call' = <<"adding", e>>
        /\ UNCHANGED <<g_SigEvents, nevents>>
    BY <1>4 DEF Add
  <2>2. TypeOK'
    BY <1>1, <2>1 DEF IInv, TypeOK, Steps
  <2>3. /\ {x \in evq' : call' # <<"adding", x>>} = evq /\ {x \in evq : call # <<"adding", x>>} = evq
        /\ Linked' = evq /\ Linked = evq
    BY <1>1, <1>2, <2>1 DEF Linked
  <2>4. CountsEvq' /\ ListsSound'
    BY <2>1, <2>3 DEF IInv, Core, CountsEvq, ListsSound
  <2>5. CallSound'
    BY <1>1, <1>2, <1>4, <2>1 DEF CallSound, IInv, TypeOK
  <2>6. \A x \in Signos : Agrees(x)' \/ Excepted(x)'
    <3> TAKE x \in Signos
    <3>1. CASE x = s
      BY <3>1, <2>1 DEF Excepted
    <3>2. CASE x # s
      <4>1. Agrees(x)
        BY <1>1 DEF IInv, Core, Excepted
      <4> QED
        BY <4>1, <3>2, <2>1 DEF Agrees, IInv, TypeOK
    <3> QED
      BY <3>1, <3>2
  <2> QED
    BY <2>2, <2>4, <2>5, <2>6, <1>3 DEF IInv, Core
<1>5. CASE g_SigEvents[s] # <<>>
  <2>1. Link(e) /\ UNCHANGED <<action, call>>
    BY <1>5 DEF Add
  <2>2. evq' \ {e} = evq /\ {x \in evq : call # <<"adding", x>>} = evq /\ Linked = evq
    BY <1>1, <1>2 DEF Linked
  <2>3. /\ CountsEvq' /\ ListsSound' /\ g_SigEvents' \in [Signos -> Seq(Events)] /\ nevents' \in Nat
        /\ g_SigEvents'[s] # <<>> /\ \A x \in Signos \ {s} : g_SigEvents'[x] = g_SigEvents[x]
    BY <1>1, <1>2, <2>1, <2>2, LinkKeeps DEF IInv, Core, CountsEvq, ListsSound
  <2>4. TypeOK'
    BY <1>1, <2>1, <2>3 DEF IInv, TypeOK
  <2>5. CallSound'
    BY <1>1, <2>1 DEF CallSound
  <2>6. \A x \in Signos : Agrees(x)'
    <3> TAKE x \in Signos
    <3>1. Agrees(x)
      BY <1>1 DEF IInv, Core, Excepted
    <3> QED
      BY <3>1, <2>1, <2>3, <1>5 DEF Agrees
  <2> QED
    BY <2>3, <2>4, <2>5, <2>6, <1>3 DEF IInv, Core
<1> QED
  BY <1>4, <1>5

LEMMA AddedKeeps == ASSUME IInv, NEW e \in Events, Added(e) PROVE IInv'
<1> DEFINE s == signo[e]
<1>1. /\ call = <<"adding", e>> /\ Link(e) /\ call' = <<>>
      /\ UNCHANGED <<known, evq, active, delete, action, at, set, todo, walk, current, pending, pipe, child>>
  BY DEF Added, In, loop, world
<1>2. e \in evq /\ action[s] = "handler" /\ g_SigEvents[s] = <<>> /\ s \in Signos /\ evq \subseteq Events
  BY <1>1, Basics DEF IInv, TypeOK, Core, CallSound
<1>3. Linked = evq \ {e} /\ {x \in evq : call # <<"adding", x>>} = evq \ {e}
  BY <1>1, <1>2 DEF Linked
<1>4. /\ CountsEvq' /\ ListsSound' /\ g_SigEvents' \in [Signos -> Seq(Events)] /\ nevents' \in Nat
      /\ g_SigEvents'[s] # <<>> /\ \A x \in Signos \ {s} : g_SigEvents'[x] = g_SigEvents[x]
  BY <1>1, <1>2, <1>3, LinkKeeps DEF IInv, Core, CountsEvq, ListsSound
<1>5. TypeOK'
  BY <1>1, <1>4 DEF IInv, TypeOK
<1>6. \A x \in Signos : Agrees(x)'
  <2> TAKE x \in Signos
  <2>1. CASE x = s
    BY <2>1, <1>1, <1>2, <1>4 DEF Agrees
  <2>2. CASE x # s
    <3>1. Agrees(x)
      BY <2>2, <1>1 DEF IInv, Core, Excepted
    <3> QED
      BY <3>1, <2>2, <1>1, <1>4 DEF Agrees
  <2> QED
    BY <2>1, <2>2
<1> QED
  BY <1>1, <1>4, <1>5, <1>6 DEF IInv, Core, CallSound, WalkSound

(* evq_del, by a call or by the loop for one shot, when no other call is amid. *)
LEMMA evq_delKeeps ==
  ASSUME TypeOK, Core, call = <<>>, NEW e \in evq, evq_del(e), UNCHANGED <<g_SigEvents, action>>
  PROVE  /\ Core' /\ evq' \subseteq Events /\ evq' = evq \ {e}
         /\ nevents' \in Nat /\ call' \in (Steps \X Events) \cup {<<>>}
<1>1. /\ evq' = evq \ {e} /\ nevents' = nevents - 1 /\ call' = <<"deleting", e>>
      /\ e \in Events /\ evq \subseteq Events
  BY DEF evq_del, TypeOK
<1>2. Linked = evq /\ Linked' = evq
  BY <1>1 DEF Linked
<1>3. /\ {x \in evq : call # <<"adding", x>>} = evq
      /\ {x \in evq' : call' # <<"adding", x>>} = evq \ {e}
  BY <1>1
<1>4. /\ Cardinality(evq) = nevents /\ Cardinality(evq \ {e}) = nevents - 1
      /\ Cardinality(evq \ {e}) \in Nat
  <2>1. IsFiniteSet(evq)
    BY <1>1, Basics, FS_Subset
  <2> QED
    BY <2>1, <1>3, FS_RemoveElement, FS_CardinalityType DEF Core, CountsEvq
<1>5. CountsEvq' /\ ListsSound'
  BY <1>1, <1>2, <1>3, <1>4 DEF Core, CountsEvq, ListsSound
<1>6. CallSound'
  BY <1>1 DEF CallSound
<1>7. \A s \in Signos : Agrees(s)'
  BY DEF Core, Agrees, Excepted
<1> QED
  BY <1>1, <1>4, <1>5, <1>6, <1>7 DEF Core, Steps

LEMMA DelKeeps == ASSUME IInv, NEW e \in Events, Del(e) PROVE IInv'
<1>1. /\ call = <<>> /\ at \in {"out", "select", "callback"}
      /\ known' \in {known, known \ {e}} /\ delete' \subseteq Events
      /\ UNCHANGED <<active, g_SigEvents, action, at, set, todo, walk, current, pending, pipe, child>>
  BY DEF Del, VmFree, loop, world, IInv, TypeOK
<1>2. walk = <<>>
  BY <1>1 DEF IInv, WalkSound, Ends
<1>3. CASE e \in evq
  <2>1. evq_del(e)
    BY <1>3 DEF Del
  <2>2. /\ Core' /\ evq' \subseteq Events /\ evq' = evq \ {e}
        /\ nevents' \in Nat /\ call' \in (Steps \X Events) \cup {<<>>}
    BY <1>1, <1>3, <2>1, evq_delKeeps DEF IInv
  <2>3. TypeOK' /\ evq' \subseteq known'
    BY <1>1, <2>2 DEF IInv, TypeOK
  <2> QED
    BY <1>1, <1>2, <2>2, <2>3, EmptyAsSet DEF IInv, WalkSound
<1>4. CASE e \notin evq
  <2>1. UNCHANGED <<evq, nevents, call>>
    BY <1>4 DEF Del
  <2>2. TypeOK' /\ evq' \subseteq known' /\ WalkSound'
    BY <1>1, <1>4, <2>1 DEF IInv, TypeOK, WalkSound
  <2> QED
    BY <1>1, <2>1, <2>2, CoreKept DEF IInv
<1> QED
  BY <1>3, <1>4

LEMMA signal_delKeeps == ASSUME IInv, NEW e \in Events, signal_del(e) PROVE IInv'
<1> DEFINE s == signo[e]
           list == g_SigEvents[s]
<1>1. /\ call = <<"deleting", e>>
      /\ g_SigEvents' = [g_SigEvents EXCEPT ![s] = Unlinked(e)]
      /\ call' = IF Unlinked(e) = <<>> THEN <<"resetting", e>> ELSE <<>>
      /\ UNCHANGED <<known, evq, active, delete, nevents, action, at, set, todo, walk, current, pending, pipe, child>>
  BY DEF signal_del, In, loop, world
<1>2. /\ s \in Signos /\ list \in Seq(Events) /\ IsInjective(list)
      /\ ToSet(list) = {x \in Linked : signo[x] = s}
  BY Basics DEF IInv, TypeOK, Core, ListsSound
<1>3. e \notin evq /\ Linked = evq \cup {e} /\ Linked' = evq
  BY <1>1 DEF Linked, IInv, TypeOK, Core, CallSound
<1>4. /\ Unlinked(e) \in Seq(Events) /\ IsInjective(Unlinked(e))
      /\ ToSet(Unlinked(e)) = ToSet(list) \ {e}
  <2>1. \E k \in DOMAIN list : list[k] = e
    BY <1>2, <1>3 DEF ToSet
  <2>2. PICK k \in DOMAIN list : list[k] = e /\ Unlinked(e) = RemoveAt(list, k)
    BY <2>1 DEF Unlinked
  <2>3. k \in 1 .. Len(list)
    BY <1>2, LenProperties
  <2> QED
    BY <2>2, <2>3, <1>2, RemovedAt
<1> HIDE DEF s, list
<1>5. /\ g_SigEvents' \in [Signos -> Seq(Events)] /\ g_SigEvents'[s] = Unlinked(e)
      /\ \A x \in Signos \ {s} : g_SigEvents'[x] = g_SigEvents[x]
  BY <1>1, <1>2, <1>4 DEF IInv, TypeOK
<1>6. ASSUME NEW x \in Signos
      PROVE  IsInjective(g_SigEvents'[x]) /\ ToSet(g_SigEvents'[x]) = {y \in Linked' : signo[y] = x}
  <2>1. CASE x = s
    <3>1. {y \in Linked : signo[y] = s} \ {e} = {y \in Linked' : signo[y] = s}
      BY <1>3
    <3> QED
      BY <2>1, <3>1, <1>2, <1>4, <1>5
  <2>2. CASE x # s
    <3>1. {y \in Linked : signo[y] = x} = {y \in Linked' : signo[y] = x}
      BY <2>2, <1>3 DEF s
    <3> QED
      BY <2>2, <3>1, <1>5 DEF IInv, Core, ListsSound
  <2> QED
    BY <2>1, <2>2
<1>7. CountsEvq'
  <2>1. {x \in evq : call # <<"adding", x>>} = {x \in evq' : call' # <<"adding", x>>}
    BY <1>1
  <2> QED
    BY <2>1, <1>1 DEF IInv, Core, CountsEvq
<1>8. CallSound'
  BY <1>1, <1>5 DEF CallSound, s
<1>9. \A x \in Signos : Agrees(x)' \/ Excepted(x)'
  <2> TAKE x \in Signos
  <2>1. Agrees(x)
    BY <1>1 DEF IInv, Core, Excepted
  <2>2. CASE x # s
    BY <2>1, <2>2, <1>1, <1>5 DEF Agrees
  <2>3. CASE x = s /\ Unlinked(e) = <<>>
    BY <2>3, <1>1 DEF Excepted, s
  <2>4. CASE x = s /\ Unlinked(e) # <<>>
    <3>1. list # <<>>
      BY <1>2, <1>3, EmptyAsSet DEF s
    <3> QED
      BY <2>1, <2>4, <3>1, <1>1, <1>5 DEF Agrees, list
  <2> QED
    BY <2>2, <2>3, <2>4
<1>10. TypeOK'
  <2>1. call' \in (Steps \X Events) \cup {<<>>}
    BY <1>1 DEF Steps
  <2> QED
    BY <1>1, <1>5, <2>1 DEF IInv, TypeOK
<1> QED
  BY <1>1, <1>6, <1>7, <1>8, <1>9, <1>10 DEF IInv, Core, ListsSound, WalkSound

(* The steps that write no more than the action of one signal. *)
LEMMA ActionKeeps ==
  ASSUME IInv, NEW s \in Signos, NEW a \in {"default", "ignore", "handler"},
         action' = [action EXCEPT ![s] = a], call' = <<>>,
         call = <<>> \/ \E e \in Events : call = <<"resetting", e>> /\ signo[e] = s,
         g_SigEvents[s] # <<>> => a # "default", a = "handler" => g_SigEvents[s] # <<>>,
         UNCHANGED <<event, loop, world>>
  PROVE  IInv'
<1>1. UNCHANGED <<known, evq, active, delete, nevents, g_SigEvents, at, set, todo, walk, current, pending, pipe, child>>
  BY DEF event, loop, world
<1>2. TypeOK' /\ evq' \subseteq known' /\ WalkSound'
  BY <1>1 DEF IInv, TypeOK, WalkSound
<1>3. /\ {x \in evq : call # <<"adding", x>>} = {x \in evq' : call' # <<"adding", x>>}
      /\ Linked = Linked'
  BY <1>1 DEF Linked
<1>4. CountsEvq' /\ ListsSound' /\ CallSound'
  BY <1>1, <1>3 DEF IInv, Core, CountsEvq, ListsSound, CallSound
<1>5. \A x \in Signos : Agrees(x)'
  <2> TAKE x \in Signos
  <2>1. CASE x = s
    BY <2>1, <1>1 DEF Agrees, IInv, TypeOK
  <2>2. CASE x # s
    <3>1. Agrees(x)
      BY <2>2 DEF IInv, Core, Excepted
    <3> QED
      BY <3>1, <2>2, <1>1 DEF Agrees, IInv, TypeOK
  <2> QED
    BY <2>1, <2>2
<1> QED
  BY <1>2, <1>4, <1>5 DEF IInv, Core

LEMMA ResetKeeps == ASSUME IInv, NEW e \in Events, Reset(e) PROVE IInv'
<1>1. /\ call = <<"resetting", e>> /\ action' = [action EXCEPT ![signo[e]] = "default"] /\ call' = <<>>
      /\ UNCHANGED <<event, loop, world>>
  BY DEF Reset, In
<1>2. g_SigEvents[signo[e]] = <<>> /\ signo[e] \in Signos
  BY <1>1, Basics DEF IInv, Core, CallSound
<1> QED
  BY <1>1, <1>2, ActionKeeps

LEMMA IgnoreKeeps == ASSUME IInv, NEW s \in Names, NEW ignore \in BOOLEAN, Ignore(s, ignore) PROVE IInv'
<1> DEFINE a == IF ignore THEN "ignore" ELSE IF g_SigEvents[s] # <<>> THEN "handler" ELSE "default"
<1>1. /\ call = <<>> /\ call' = <<>> /\ action' = [action EXCEPT ![s] = a]
      /\ UNCHANGED <<event, loop, world>> /\ s \in Signos
  BY DEF Ignore, VmFree, Signos
<1>2. /\ a \in {"default", "ignore", "handler"}
      /\ g_SigEvents[s] # <<>> => a # "default"
      /\ a = "handler" => g_SigEvents[s] # <<>>
  OBVIOUS
<1> HIDE DEF a
<1> QED
  BY <1>1, <1>2, ActionKeeps

-----------------------------------------------------------------------------
(* The loop *)

LEMMA signal_activesKeeps == ASSUME IInv, signal_actives PROVE IInv'
<1> DEFINE e == Head(walk)
<1>1. /\ call = <<>> /\ at = "process" /\ at' = "process" /\ walk # <<>> /\ walk' = Tail(walk)
      /\ signal_active(e, e \in OneShot)
      /\ UNCHANGED <<known, delete, g_SigEvents, action, set, todo, current, pending, pipe, child>>
  BY DEF signal_actives, Goes, world
<1>2. /\ e \in evq /\ walk' \in Seq(Events) /\ IsInjective(walk') /\ e \in Events
      /\ e \notin ToSet(walk') /\ ToSet(walk') \subseteq evq
  BY <1>1, Tailed DEF IInv, TypeOK, WalkSound
<1>3. active' = active \cup {e} /\ IF e \in OneShot THEN evq_del(e) ELSE UNCHANGED <<evq, nevents, call>>
  BY <1>1 DEF signal_active
<1> HIDE DEF e
<1>4. CASE e \in OneShot
  <2>1. /\ Core' /\ evq' \subseteq Events /\ evq' = evq \ {e}
        /\ nevents' \in Nat /\ call' \in (Steps \X Events) \cup {<<>>}
    BY <1>1, <1>2, <1>3, <1>4, evq_delKeeps DEF IInv
  <2>2. TypeOK'
    BY <1>1, <1>2, <1>3, <2>1 DEF IInv, TypeOK
  <2> QED
    BY <1>1, <1>2, <2>1, <2>2 DEF IInv, WalkSound
<1>5. CASE e \notin OneShot
  <2>1. UNCHANGED <<evq, nevents, call>>
    BY <1>3, <1>5
  <2>2. TypeOK'
    BY <1>1, <1>2, <1>3, <2>1 DEF IInv, TypeOK
  <2> QED
    BY <1>1, <1>2, <2>1, <2>2, CoreKept DEF IInv, WalkSound
<1> QED
  BY <1>4, <1>5

LEMMA signal_childrenKeeps == ASSUME IInv, NEW c \in Children, signal_children(c) PROVE IInv'
<1> DEFINE list == g_SigEvents[SIGCHLD]
<1>1. /\ call = <<>> /\ at = "reap" /\ at' = "reap" /\ child' = [child EXCEPT ![c] = "reaped"]
      /\ UNCHANGED <<known, delete, g_SigEvents, action, set, todo, walk, current, pending, pipe>>
  BY DEF signal_children, Goes
<1>2. walk = <<>>
  BY <1>1 DEF IInv, WalkSound, Ends
<1>3. child' \in [Children -> {"unborn", "alive", "zombie", "reaped", "told"}]
  BY <1>1 DEF IInv, TypeOK
<1>4. CASE UNCHANGED <<active, evq, nevents, call>>
  <2>1. TypeOK'
    BY <1>1, <1>3, <1>4 DEF IInv, TypeOK
  <2> QED
    BY <1>1, <1>2, <1>4, <2>1, CoreKept DEF IInv, WalkSound
<1>5. ASSUME NEW k \in DOMAIN list, signal_active(list[k], TRUE) PROVE IInv'
  <2> DEFINE e == list[k]
  <2>1. Linked = evq
    BY <1>1 DEF Linked, IInv, TypeOK
  <2>2. e \in evq /\ e \in Events
    BY <2>1, Basics DEF ToSet, IInv, TypeOK, Core, ListsSound
  <2>3. active' = active \cup {e} /\ evq_del(e)
    BY <1>5 DEF signal_active
  <2> HIDE DEF e
  <2>4. /\ Core' /\ evq' \subseteq Events /\ evq' = evq \ {e}
        /\ nevents' \in Nat /\ call' \in (Steps \X Events) \cup {<<>>}
    BY <1>1, <2>2, <2>3, evq_delKeeps DEF IInv
  <2>5. TypeOK'
    BY <1>1, <1>3, <2>2, <2>3, <2>4 DEF IInv, TypeOK
  <2> QED
    BY <1>1, <1>2, <2>4, <2>5, EmptyAsSet DEF IInv, WalkSound
<1> QED
  BY <1>4, <1>5 DEF signal_children

(* The steps that leave lists, handlers and count alone. *)
LEMMA QuietKeeps ==
  ASSUME IInv, TypeOK', UNCHANGED <<evq, nevents, g_SigEvents, action, call>>,
         evq \subseteq known', walk' = walk, walk # <<>> => at' \in {"process"} \cup Ends
  PROVE  IInv'
BY CoreKept DEF IInv, WalkSound

LEMMA ListsKeep ==
  ASSUME IInv, NEW e \in Events, Call(e) \/ PassOver(e)
  PROVE  IInv'
<1>1. /\ UNCHANGED <<evq, nevents, g_SigEvents, action, call, set, todo, walk, pending, pipe>>
      /\ active' \subseteq active /\ delete' \subseteq delete /\ at = "list"
      /\ at' \in {"list", "callback"} /\ current' \subseteq Events
      /\ evq \subseteq known' /\ known' \subseteq known
  BY DEF Call, PassOver, Passed, Goes, event, world, IInv, TypeOK
<1>2. child' \in [Children -> {"unborn", "alive", "zombie", "reaped", "told"}]
  <2>1. CASE PassOver(e)
    BY <2>1 DEF PassOver, world, IInv, TypeOK
  <2>2. CASE Call(e)
    <3>1. child' = [c \in Children |-> IF Watches[e] = c /\ child[c] = "reaped" THEN "told" ELSE child[c]]
      BY <2>2 DEF Call
    <3> QED
      BY <3>1 DEF IInv, TypeOK
  <2> QED
    BY <2>1, <2>2
<1>3. TypeOK'
  BY <1>1, <1>2 DEF IInv, TypeOK
<1>4. walk = <<>>
  BY <1>1 DEF IInv, WalkSound, Ends
<1> QED
  BY <1>1, <1>3, <1>4, QuietKeeps

LEMMA CallbackReturnsKeeps == ASSUME IInv, CallbackReturns PROVE IInv'
<1>1. /\ UNCHANGED <<evq, nevents, g_SigEvents, action, call, set, todo, walk, pending, pipe, child>>
      /\ active' \subseteq active /\ delete' \subseteq delete /\ at = "callback"
      /\ at' = "list" /\ current' = {}
      /\ evq \subseteq known' /\ known' \subseteq known
  BY DEF CallbackReturns, Passed, Goes, world, IInv, TypeOK
<1>2. TypeOK'
  BY <1>1 DEF IInv, TypeOK
<1>3. walk = <<>>
  BY <1>1 DEF IInv, WalkSound, Ends
<1> QED
  BY <1>1, <1>2, <1>3, QuietKeeps

LEMMA LooksAtKeeps == ASSUME IInv, NEW s \in Signos, LooksAt(s) PROVE IInv'
<1>1. /\ call = <<>> /\ at = "process" /\ walk = <<>>
      /\ at' = IF s = SIGCHLD THEN "reap" ELSE "process"
      /\ walk' = IF s = SIGCHLD THEN <<>> ELSE g_SigEvents[s]
      /\ todo' = todo \ {s}
      /\ UNCHANGED <<known, evq, active, delete, nevents, g_SigEvents, action, call, set, current, pending, pipe, child>>
  BY DEF LooksAt, Goes, event, world
<1>2. /\ g_SigEvents[s] \in Seq(Events) /\ IsInjective(g_SigEvents[s]) /\ ToSet(g_SigEvents[s]) \subseteq evq
  <2>1. Linked = evq
    BY <1>1 DEF Linked, IInv, TypeOK
  <2> QED
    BY <2>1 DEF IInv, TypeOK, Core, ListsSound
<1>3. TypeOK'
  BY <1>1, <1>2, EmptySeq DEF IInv, TypeOK
<1>4. WalkSound'
  BY <1>1, <1>2, EmptyAsSet DEF WalkSound
<1> QED
  BY <1>1, <1>3, <1>4, CoreKept DEF IInv

(* Steps of the loop between the places it stands at, and of the world around it. *)
LEMMA MovesKeep ==
  ASSUME IInv, UNCHANGED event, UNCHANGED <<action, call, walk, current>>,
         at' \in {"out", "test", "select", "process", "list"} \cup Ends,
         walk # <<>> => at' \in {"process"} \cup Ends \/ at' = at,
         set' \subseteq Signos, todo' \subseteq Signos, pending' \subseteq Signos, pipe' \subseteq Signos,
         child' = child
  PROVE  IInv'
<1>1. UNCHANGED <<known, evq, active, delete, nevents, g_SigEvents, action, call, walk, current, child>>
  BY DEF event
<1>2. TypeOK'
  BY <1>1 DEF IInv, TypeOK
<1>3. walk # <<>> => at' \in {"process"} \cup Ends
  BY DEF IInv, WalkSound
<1> QED
  BY <1>1, <1>2, <1>3, QuietKeeps DEF IInv

LEMMA LoopKeeps ==
  ASSUME IInv, \/ LoopBegins \/ LoopTests \/ SelectIsInterrupted \/ SelectFinds
               \/ Reads \/ ReadsNothing \/ NoChildren \/ ListEnds
  PROVE  IInv'
<1>1. /\ UNCHANGED event /\ UNCHANGED <<action, call, walk, current>> /\ child' = child
      /\ at' \in {"out", "test", "select", "process", "list"}
      /\ set' \subseteq Signos /\ todo' \subseteq Signos /\ pending' \subseteq Signos /\ pipe' \subseteq Signos
  BY DEF LoopBegins, LoopTests, SelectIsInterrupted, SelectFinds, Reads, ReadsNothing, NoChildren,
         ListEnds, Goes, world, IInv, TypeOK
<1>2. walk = <<>> \/ at' = at
  BY DEF LoopBegins, LoopTests, SelectIsInterrupted, SelectFinds, Reads, ReadsNothing, NoChildren,
         ListEnds, Goes, IInv, WalkSound, Ends
<1> QED
  BY <1>1, <1>2, MovesKeep

LEMMA ArrivesKeeps == ASSUME IInv, NEW s \in Signos, Arrives(s) PROVE IInv'
<1>1. /\ UNCHANGED event /\ UNCHANGED <<action, call, set, todo, walk, current, child>>
      /\ at' = at \/ at' \in Ends
      /\ pending' \subseteq Signos /\ pipe' \subseteq Signos
  BY DEF Arrives, Kills, signal_handler, Swallowed, Delivers, loop, Ends, IInv, TypeOK
<1>2. TypeOK'
  BY <1>1 DEF event, IInv, TypeOK
<1>3. walk # <<>> => at' \in {"process"} \cup Ends
  BY <1>1 DEF IInv, WalkSound
<1> QED
  BY <1>1, <1>2, <1>3, QuietKeeps DEF event, IInv

LEMMA WorldKeeps ==
  ASSUME IInv, \/ \E s \in Names : Raise(s)
               \/ \E c \in Children : ChildEnds(c) \/ Spawn(c)
  PROVE  IInv'
<1>1. /\ UNCHANGED event /\ UNCHANGED <<action, call>> /\ UNCHANGED loop /\ pipe' = pipe
      /\ pending' \subseteq Signos
  BY Basics DEF Raise, ChildEnds, Spawn, Signos, IInv, TypeOK
<1>2. child' \in [Children -> {"unborn", "alive", "zombie", "reaped", "told"}]
  BY DEF Raise, ChildEnds, Spawn, IInv, TypeOK
<1>3. TypeOK'
  BY <1>1, <1>2 DEF event, loop, IInv, TypeOK
<1> QED
  BY <1>1, <1>3, QuietKeeps DEF event, loop, IInv, WalkSound

LEMMA StepKeeps == IInv /\ [Next]_vars => IInv'
<1> SUFFICES ASSUME IInv, [Next]_vars PROVE IInv'
  OBVIOUS
<1>1. ASSUME NEW e \in Events, Added(e) \/ signal_del(e) \/ Reset(e) PROVE IInv'
  BY <1>1, AddedKeeps, signal_delKeeps, ResetKeeps
<1>2. ASSUME NEW e \in Events, Add(e) \/ Del(e) PROVE IInv'
  BY <1>2, AddKeeps, DelKeeps
<1>3. ASSUME NEW s \in Names, NEW ignore \in BOOLEAN, Ignore(s, ignore) PROVE IInv'
  BY <1>3, IgnoreKeeps
<1>4. CASE \/ LoopBegins \/ LoopTests \/ SelectIsInterrupted \/ SelectFinds
           \/ Reads \/ ReadsNothing \/ NoChildren \/ ListEnds
  BY <1>4, LoopKeeps
<1>5. ASSUME NEW s \in Signos, LooksAt(s) PROVE IInv'
  BY <1>5, LooksAtKeeps
<1>6. CASE signal_actives
  BY <1>6, signal_activesKeeps
<1>7. ASSUME NEW c \in Children, signal_children(c) PROVE IInv'
  BY <1>7, signal_childrenKeeps
<1>8. ASSUME NEW e \in Events, Call(e) \/ PassOver(e) PROVE IInv'
  BY <1>8, ListsKeep
<1>9. CASE CallbackReturns
  BY <1>9, CallbackReturnsKeeps
<1>10. ASSUME NEW s \in Signos, Arrives(s) PROVE IInv'
  BY <1>10, ArrivesKeeps
<1>11. CASE \/ \E s \in Names : Raise(s)
            \/ \E c \in Children : ChildEnds(c) \/ Spawn(c)
  BY <1>11, WorldKeeps
<1>12. CASE UNCHANGED vars
  <2>1. TypeOK'
    BY <1>12 DEF vars, event, loop, world, IInv, TypeOK
  <2> QED
    BY <1>12, <2>1, QuietKeeps DEF vars, event, loop, IInv, WalkSound
<1> QED
  BY <1>1, <1>2, <1>3, <1>4, <1>5, <1>6, <1>7, <1>8, <1>9, <1>10, <1>11, <1>12
  DEF Next, CallSteps, LoopSteps, ProgramCalls

LEMMA IInvHolds == Spec => []IInv
BY InitHolds, StepKeeps, PTL DEF Spec

(* The variables of signal.c keep their types, for any signals and children: the    *)
(* count never goes below zero.                                                     *)
THEOREM SignalsTypeOK == Spec => []TypeOK
<1>1. IInv => TypeOK
  BY DEF IInv
<1> QED
  BY <1>1, IInvHolds, PTL

(* Between two calls each signal with events has a handler or is ignored, and one *)
(* without has no handler.                                                        *)
THEOREM SignalHandlersAgree == Spec => []HandlersAgree
<1>1. IInv => HandlersAgree
  <2> SUFFICES ASSUME IInv, call = <<>>, NEW s \in Signos PROVE Agrees(s)
    BY DEF HandlersAgree, Agrees
  <2> QED
    BY DEF IInv, Core, Excepted
<1> QED
  BY <1>1, IInvHolds, PTL

(* Between two calls nevents counts the events of the queue, and each is in the list *)
(* of its signal once.                                                               *)
THEOREM SignalsAreCounted == Spec => []CountsSignals
<1>1. IInv => CountsSignals
  <2> SUFFICES ASSUME IInv, call = <<>> PROVE CountsSignals
    BY DEF CountsSignals
  <2>1. Linked = evq /\ {e \in evq : call # <<"adding", e>>} = evq
    BY DEF Linked, IInv, TypeOK
  <2> QED
    BY <2>1 DEF CountsSignals, IInv, Core, CountsEvq, ListsSound
<1> QED
  BY <1>1, IInvHolds, PTL

-----------------------------------------------------------------------------
(* Signals amid a call *)

(* The default action of a signal, which ends the process, is taken only when no event *)
(* of the queue waits for the signal.                                                  *)
SparesTheWaited == [][\A s \in Signos : Kills(s) => \A e \in evq : signo[e] # s]_vars

LEMMA WaitedHasAction ==
  ASSUME IInv, NEW e \in evq
  PROVE  action[signo[e]] # "default"
<1> DEFINE s == signo[e]
<1>1. e \in Events /\ s \in Signos
  BY Basics DEF IInv, TypeOK
<1>2. CASE call = <<"adding", e>>
  BY <1>1, <1>2 DEF IInv, Core, CallSound
<1>3. CASE call # <<"adding", e>>
  <2>1. e \in ToSet(g_SigEvents[s])
    BY <1>1, <1>3 DEF IInv, Core, ListsSound, Linked
  <2>2. g_SigEvents[s] # <<>>
    BY <2>1, EmptyAsSet
  <2>3. CASE Agrees(s)
    BY <2>2, <2>3 DEF Agrees
  <2>4. CASE Excepted(s)
    BY <2>2, <2>4 DEF Excepted, IInv, Core, CallSound
  <2> QED
    BY <1>1, <2>3, <2>4 DEF IInv, Core
<1> QED
  BY <1>2, <1>3

(* A signal that comes between any two writes of a call or of the loop does not end *)
(* the process as long as an event of the queue waits for it: signal_add installs   *)
(* the handler first, signal_del gives it back last, and evq_ignore_signal looks at *)
(* the list.                                                                        *)
THEOREM WaitedSignalsSpare == Spec => SparesTheWaited
<1>1. IInv /\ [Next]_vars => [\A s \in Signos : Kills(s) => \A e \in evq : signo[e] # s]_vars
  BY WaitedHasAction DEF Kills
<1> QED
  BY <1>1, IInvHolds, PTL DEF Spec, SparesTheWaited

(* The handler takes NULL for a queue only between the two halves of a deletion, when *)
(* evq_del has cleared ev->evq and signal_del has not unlinked the event yet.         *)
FaultsWhileDeleting ==
  [][at' = "crashed" /\ at # "crashed" => \E e \in Events : call = <<"deleting", e>>]_vars

LEMMA OnlyHandlerFaults ==
  ASSUME [Next]_vars, at' = "crashed", at # "crashed"
  PROVE  \E s \in Signos : signal_handler(s)
<1>1. ~CallSteps /\ ~ProgramCalls
  BY DEF CallSteps, ProgramCalls, Added, signal_del, Reset, Add, Del, Ignore, Spawn,
         LoopBegins, Goes, loop
<1>2. ~LoopSteps
  BY DEF LoopSteps, LoopTests, Reads, ReadsNothing, LooksAt, signal_actives, signal_children,
         NoChildren, ListEnds, Call, PassOver, Goes
<1>3. ~(SelectIsInterrupted \/ SelectFinds \/ CallbackReturns) /\ vars' # vars
  BY DEF SelectIsInterrupted, SelectFinds, CallbackReturns, Goes, vars, loop
<1>4. /\ ~\E s \in Signos : Kills(s) \/ Swallowed(s)
      /\ ~\E s \in Names : Raise(s)
      /\ ~\E c \in Children : ChildEnds(c)
  BY DEF Kills, Swallowed, Raise, ChildEnds, loop
<1> QED
  BY <1>1, <1>2, <1>3, <1>4 DEF Next, Arrives

LEMMA NoQueueWhileDeleting ==
  ASSUME IInv, NEW s \in Signos, signal_handler(s), at' = "crashed", at # "crashed"
  PROVE  \E e \in Events : call = <<"deleting", e>>
<1> DEFINE list == g_SigEvents[s]
<1>1. list \in Seq(Events) /\ list # <<>> /\ Head(list) \notin evq
  BY DEF signal_handler, IInv, TypeOK
<1>2. Head(list) = list[1] /\ 1 \in 1..Len(list)
  BY <1>1
<1>3. Head(list) \in ToSet(list)
  BY <1>1, <1>2 DEF ToSet
<1>4. Head(list) \in Linked
  BY <1>3 DEF IInv, Core, ListsSound
<1> QED
  BY <1>1, <1>4 DEF Linked

(* Apart from that window the handler always finds a queue: not while an event is     *)
(* added, not while the walk over the list deletes the events for one shot, and not    *)
(* when the last of them has left.                                                     *)
THEOREM HandlerFaultsWhileDeleting == Spec => FaultsWhileDeleting
<1>1. IInv /\ [Next]_vars =>
        [at' = "crashed" /\ at # "crashed" => \E e \in Events : call = <<"deleting", e>>]_vars
  BY OnlyHandlerFaults, NoQueueWhileDeleting
<1> QED
  BY <1>1, IInvHolds, PTL DEF Spec, FaultsWhileDeleting
=============================================================================
