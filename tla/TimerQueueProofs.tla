-------------------------- MODULE TimerQueueProofs ---------------------------
(* The lists of timeouts, for any timers and timeouts.  Every timer is in one     *)
(* queue whatever the clock says; the order of the queues, the time to sleep and  *)
(* the alarms they implement need a run short enough for the counter to tell.     *)
EXTENDS TimerQueue, SequenceFacts

IInv == queue \in [Lists -> Seq(Timers)] /\ InOneQueue

LEMMA OneQueue ==
  ASSUME IInv, NEW m \in Lists
  PROVE  /\ queue[m] \in Seq(Timers) /\ IsInjective(queue[m])
         /\ \A l \in Lists : l # m => Members(l) \cap Members(m) = {}
BY DEF IInv, InOneQueue

LEMMA Left ==
  ASSUME NEW q \in Seq(Timers), IsInjective(q), NEW t \in Timers
  PROVE  /\ Without(q, t) \in Seq(Timers) /\ IsInjective(Without(q, t))
         /\ ToSet(Without(q, t)) = ToSet(q) \ {t}
<1>1. CASE t \in ToSet(q)
  <2>1. \E k \in DOMAIN q : q[k] = t
    BY <1>1 DEF ToSet
  <2>2. PICK k \in DOMAIN q : q[k] = t /\ Without(q, t) = RemoveAt(q, k)
    BY <1>1, <2>1 DEF Without
  <2>3. k \in 1 .. Len(q)
    BY LenProperties
  <2> QED
    BY <2>2, <2>3, RemovedAt
<1>2. CASE t \notin ToSet(q)
  BY <1>2 DEF Without
<1> QED
  BY <1>1, <1>2

LEMMA ToTheEnd ==
  ASSUME NEW q \in Seq(Timers), IsInjective(q), NEW t \in Timers
  PROVE  /\ Append(Without(q, t), t) \in Seq(Timers)
         /\ IsInjective(Append(Without(q, t), t))
         /\ ToSet(Append(Without(q, t), t)) = ToSet(q) \cup {t}
<1>1. /\ Without(q, t) \in Seq(Timers) /\ IsInjective(Without(q, t))
      /\ ToSet(Without(q, t)) = ToSet(q) \ {t}
  BY Left
<1>2. t \notin ToSet(Without(q, t))
  BY <1>1
<1> QED
  BY <1>1, <1>2, Appended

(* Steps by which each queue keeps its timers. *)
LEMMA SameMembersKeep ==
  ASSUME IInv, NEW r \in [Lists -> Seq(Timers)], queue' = r,
         \A l \in Lists : IsInjective(r[l]) /\ ToSet(r[l]) = Members(l)
  PROVE  IInv'
BY DEF IInv, InOneQueue, Members

LEMMA ResetKeeps ==
  ASSUME IInv, NEW t \in Timers, NEW m \in Lists, t \in Members(m), NEW now,
         timeout_reset(t, m, now)
  PROVE  IInv'
<1> DEFINE q == IF m = Infinite THEN queue[m] ELSE Append(Without(queue[m], t), t)
           r == [queue EXCEPT ![m] = q]
<1>1. queue' = r
  BY DEF timeout_reset, IInv
<1>2. q \in Seq(Timers) /\ IsInjective(q) /\ ToSet(q) = Members(m)
  <2>1. queue[m] \in Seq(Timers) /\ IsInjective(queue[m]) /\ ToSet(queue[m]) = Members(m)
    BY OneQueue DEF Members
  <2>2. /\ Append(Without(queue[m], t), t) \in Seq(Timers)
        /\ IsInjective(Append(Without(queue[m], t), t))
        /\ ToSet(Append(Without(queue[m], t), t)) = Members(m)
    <3>1. ToSet(queue[m]) \cup {t} = Members(m)
      BY <2>1
    <3> QED
      BY <2>1, <3>1, ToTheEnd
  <2> QED
    BY <2>1, <2>2
<1> HIDE DEF q
<1>3. /\ r \in [Lists -> Seq(Timers)] /\ r[m] = q
      /\ \A l \in Lists \ {m} : r[l] = queue[l]
  BY <1>2 DEF IInv
<1>4. \A l \in Lists : IsInjective(r[l]) /\ ToSet(r[l]) = Members(l)
  BY <1>2, <1>3, OneQueue DEF Members
<1> QED
  BY <1>1, <1>3, <1>4, SameMembersKeep

LEMMA TakenIsTyped ==
  ASSUME IInv, NEW t \in Timers
  PROVE  /\ Taken(t) \in [Lists -> Seq(Timers)]
         /\ \A l \in Lists : IsInjective(Taken(t)[l]) /\ ToSet(Taken(t)[l]) = Members(l) \ {t}
<1>1. \A l \in Lists : /\ Taken(t)[l] = Without(queue[l], t)
                       /\ Without(queue[l], t) \in Seq(Timers) /\ IsInjective(Without(queue[l], t))
                       /\ ToSet(Without(queue[l], t)) = Members(l) \ {t}
  <2> TAKE l \in Lists
  <2>1. queue[l] \in Seq(Timers) /\ IsInjective(queue[l]) /\ ToSet(queue[l]) = Members(l)
    BY OneQueue DEF Members
  <2>2. Taken(t)[l] = Without(queue[l], t)
    BY DEF Taken
  <2> QED
    BY <2>1, <2>2, Left
<1>2. Taken(t) = [l \in Lists |-> Taken(t)[l]]
  BY DEF Taken
<1> QED
  BY <1>1, <1>2

LEMMA AddKeeps ==
  ASSUME IInv, NEW t \in Timers, NEW m \in Lists, timeout_add(t, m)
  PROVE  IInv'
<1>1. CASE t \in Members(m) /\ timeout_reset(t, m, get_milliseconds)
  BY <1>1, ResetKeeps
<1>2. CASE t \notin Members(m) /\ queue' = [Taken(t) EXCEPT ![m] = Append(@, t)]
  <2> DEFINE q == Append(Taken(t)[m], t)
             r == [Taken(t) EXCEPT ![m] = q]
  <2>1. queue' = r
    BY <1>2, TakenIsTyped
  <2>2. q \in Seq(Timers) /\ IsInjective(q) /\ ToSet(q) = Members(m) \cup {t}
    <3>1. Taken(t)[m] \in Seq(Timers)
      BY TakenIsTyped
    <3>2. IsInjective(Taken(t)[m]) /\ ToSet(Taken(t)[m]) = Members(m) \ {t}
      BY TakenIsTyped
    <3>3. t \notin ToSet(Taken(t)[m]) /\ Members(m) \ {t} = Members(m)
      BY <1>2, <3>2
    <3> HIDE DEF Taken
    <3> QED
      BY <3>1, <3>2, <3>3, Appended
  <2> HIDE DEF q
  <2>3. /\ r \in [Lists -> Seq(Timers)] /\ r[m] = q
        /\ \A l \in Lists \ {m} : r[l] = Taken(t)[l]
    BY <2>2, TakenIsTyped
  <2>4. \A l \in Lists : /\ IsInjective(r[l])
                         /\ ToSet(r[l]) = (Members(l) \ {t}) \cup (IF l = m THEN {t} ELSE {})
    BY <2>2, <2>3, TakenIsTyped
  <2>5. \A k, l \in Lists : l # k => ToSet(r[l]) \cap ToSet(r[k]) = {}
    BY <2>4, OneQueue
  <2> HIDE DEF r
  <2> QED
    BY <2>1, <2>3, <2>4, <2>5 DEF IInv, InOneQueue, Members
<1> QED
  BY <1>1, <1>2 DEF timeout_add

LEMMA StopKeeps == ASSUME IInv, NEW t \in Timers, Stop(t) PROVE IInv'
<1>1. queue' = Taken(t)
  BY DEF Stop
<1>2. \A k, l \in Lists : l # k => ToSet(Taken(t)[l]) \cap ToSet(Taken(t)[k]) = {}
  <2>1. \A l \in Lists : ToSet(Taken(t)[l]) \subseteq Members(l)
    BY TakenIsTyped
  <2> QED
    BY <2>1, OneQueue
<1>3. /\ Taken(t) \in [Lists -> Seq(Timers)]
      /\ \A l \in Lists : IsInjective(Taken(t)[l])
  BY TakenIsTyped
<1> QED
  BY <1>1, <1>2, <1>3 DEF IInv, InOneQueue, Members

(* A timer with a deadline that has not come. *)
Late(t) == Signed(timeout[t]) > Signed(get_milliseconds + MinTimeout)

LEMMA ExpiredIs ==
  ASSUME NEW q \in Seq(Timers)
  PROVE  \E k \in 0 .. Len(q) :
           /\ Expired(q) = SubSeq(q, 1, k) /\ Len(Expired(q)) = k
           /\ \A j \in 1 .. k : ~Late(q[j])
           /\ k < Len(q) => Late(q[k + 1])
<1> DEFINE late == {i \in 1 .. Len(q) : Late(q[i])}
<1>1. Len(q) \in Nat /\ q \in Seq(Timers)
  BY LenProperties
<1>2. Expired(q) = IF late = {} THEN q ELSE SubSeq(q, 1, Min(late) - 1)
  BY DEF Expired, Late
<1>3. CASE late = {}
  <2>1. Expired(q) = q
    BY <1>2, <1>3
  <2>2. q = SubSeq(q, 1, Len(q)) /\ Len(q) \in 0 .. Len(q)
    BY <1>1
  <2>3. \A j \in 1 .. Len(q) : ~Late(q[j])
    BY <1>3
  <2>4. Expired(q) = SubSeq(q, 1, Len(q)) /\ Len(Expired(q)) = Len(q) /\ ~(Len(q) < Len(q))
    BY <1>1, <2>1, <2>2
  <2> HIDE DEF late
  <2> QED
    BY <2>2, <2>3, <2>4
<1>4. CASE late # {}
  <2>1. Expired(q) = SubSeq(q, 1, Min(late) - 1)
    BY <1>2, <1>4
  <2>2. late \in SUBSET Nat /\ late \subseteq 1 .. Len(q)
    BY <1>1
  <2>3. \A i \in 1 .. Len(q) : i \in late <=> Late(q[i])
    OBVIOUS
  <2> HIDE DEF late
  <2>4. \E x \in late : \A y \in late : x <= y
    BY <1>4, <2>2, LeastExists
  <2>5. Min(late) \in late /\ \A y \in late : Min(late) <= y
    BY <2>4 DEF Min
  <2> DEFINE k == Min(late) - 1
  <2>6. Min(late) \in 1 .. Len(q)
    BY <2>2, <2>5
  <2>7. k \in 0 .. Len(q) /\ k + 1 = Min(late)
    BY <1>1, <2>6
  <2>8. Expired(q) = SubSeq(q, 1, k)
    BY <2>1
  <2> HIDE DEF k
  <2>9. Len(SubSeq(q, 1, k)) = k
    BY <2>7, <1>1
  <2>10. ASSUME NEW j \in 1 .. k PROVE ~Late(q[j])
    <3>1. j \in 1 .. Len(q) /\ ~(k + 1 <= j)
      BY <1>1, <2>7
    <3> QED
      BY <2>3, <2>5, <2>7, <3>1
  <2>11. Late(q[k + 1])
    BY <2>3, <2>5, <2>6, <2>7
  <2> QED
    BY <2>7, <2>8, <2>9, <2>10, <2>11
<1> QED
  BY <1>3, <1>4

(* A queue is turned: the timers that have expired, at its front, go to its end. *)
LEMMA RecycledIsTurned ==
  ASSUME NEW q \in Seq(Timers), IsInjective(q)
  PROVE  Recycled(q) \in Seq(Timers) /\ IsInjective(Recycled(q)) /\ ToSet(Recycled(q)) = ToSet(q)
<1>1. PICK k \in 0 .. Len(q) : Expired(q) = SubSeq(q, 1, k) /\ Len(Expired(q)) = k
  BY ExpiredIs
<1>2. Recycled(q) = SubSeq(q, k + 1, Len(q)) \o SubSeq(q, 1, k)
  BY <1>1 DEF Recycled
<1> QED
  BY <1>2, Rotated

LEMMA TimesOutKeeps == ASSUME IInv, WaitTimesOut PROVE IInv'
<1> DEFINE q(m) == IF m = Infinite THEN queue[m] ELSE Recycled(queue[m])
           r == [m \in Lists |-> q(m)]
<1>1. queue' = r
  BY DEF WaitTimesOut
<1>2. \A m \in Lists : q(m) \in Seq(Timers) /\ IsInjective(q(m)) /\ ToSet(q(m)) = Members(m)
  <2> TAKE m \in Lists
  <2>1. queue[m] \in Seq(Timers) /\ IsInjective(queue[m]) /\ ToSet(queue[m]) = Members(m)
    BY OneQueue DEF Members
  <2>2. /\ Recycled(queue[m]) \in Seq(Timers) /\ IsInjective(Recycled(queue[m]))
        /\ ToSet(Recycled(queue[m])) = Members(m)
    BY <2>1, RecycledIsTurned
  <2> QED
    BY <2>1, <2>2
<1> HIDE DEF q
<1>3. r \in [Lists -> Seq(Timers)] /\ \A m \in Lists : r[m] = q(m)
  BY <1>2
<1> HIDE DEF r
<1> QED
  BY <1>1, <1>2, <1>3, SameMembersKeep

LEMMA StepKeeps == IInv /\ [Next]_vars => IInv'
<1> SUFFICES ASSUME IInv, [Next]_vars PROVE IInv'
  OBVIOUS
<1>1. CASE queue' = queue
  BY <1>1 DEF IInv, InOneQueue, Members
<1>2. ASSUME NEW t \in Timers, Stop(t) PROVE IInv'
  BY <1>2, StopKeeps
<1>3. ASSUME NEW t \in Timers, Trigger(t) PROVE IInv'
  BY <1>3, ResetKeeps DEF Trigger
<1>4. ASSUME NEW t \in Timers, WaitFinds(t) PROVE IInv'
  BY <1>1, <1>4, ResetKeeps DEF WaitFinds
<1>5. ASSUME NEW t \in Timers, NEW m \in Lists, Start(t, m) PROVE IInv'
  BY <1>5, AddKeeps DEF Start
<1>6. CASE WaitTimesOut
  BY <1>6, TimesOutKeeps
<1> QED
  BY <1>1, <1>2, <1>3, <1>4, <1>5, <1>6 DEF Next, vars, Tick, WaitBegins

(* A timer is in one timeout queue, once, so that the two pointers of its event   *)
(* serve: whichever timers are started, restarted with other timeouts, stopped,   *)
(* triggered and found expired, from callbacks and from other threads.            *)
THEOREM TimersInOneQueue == Spec => []InOneQueue
<1>1. Init => IInv
  <2> SUFFICES ASSUME Init PROVE IInv
    OBVIOUS
  <2>1. \A m \in Lists : queue[m] = <<>> /\ queue[m] \in Seq(Timers)
    BY EmptySeq DEF Init
  <2>2. \A m \in Lists : IsInjective(queue[m]) /\ Members(m) = {}
    BY <2>1, EmptyAsSet DEF Members
  <2>3. queue \in [Lists -> Seq(Timers)]
    BY <2>1 DEF Init
  <2> QED
    BY <2>2, <2>3 DEF IInv, InOneQueue
<1>2. IInv => InOneQueue
  BY DEF IInv
<1> QED
  BY <1>1, <1>2, StepKeeps, PTL DEF Spec

-----------------------------------------------------------------------------
(* Times *)

(* The run is shorter than half a period of the counter, and so is every timeout. *)
Short == /\ \A m \in Msecs : m < HalfRange
         /\ \A s \in StartTimes : MaxTime - s < HalfRange

(* No other thread starts a timer while the loop waits without a limit. *)
Unhurried == Hasty = {}

(* When a timer set to tt expires, told at c. *)
DueAt(tt, c) == c + Signed(tt - Wrap(c))

-----------------------------------------------------------------------------
(* The counter *)

LEMMA ModIs ==
  ASSUME NEW x \in Int, NEW r \in Nat \ {0}
  PROVE  /\ x % r \in 0 .. r - 1
         /\ x = r * (x \div r) + (x % r) /\ x \div r \in Int
OBVIOUS

LEMMA ModUnique ==
  ASSUME NEW r \in Nat \ {0}, NEW k \in Int, NEW y \in 0 .. r - 1
  PROVE  (r * k + y) % r = y
<1> DEFINE x == r * k + y
<1>1. x \in Int
  OBVIOUS
<1>2. PICK j \in Int, z \in 0 .. r - 1 : x = r * j + z /\ z = x % r
  BY <1>1, ModIs
<1>3. k - j = 0
  <2> DEFINE d == k - j
  <2>1. d \in Int /\ r * d = z - y
    BY <1>2
  <2> HIDE DEF d
  <2>2. CASE d >= 1
    <3>1. r * d >= r
      BY <2>1, <2>2
    <3> QED
      BY <3>1, <2>1
  <2>3. CASE d <= -1
    <3>1. r * d <= -r
      BY <2>1, <2>3
    <3> QED
      BY <3>1, <2>1
  <2> QED
    BY <2>1, <2>2, <2>3 DEF d
<1> QED
  BY <1>2, <1>3

LEMMA PeriodIs == HalfRange \in Nat \ {0} /\ Range2 \in Nat \ {0} /\ Range2 = HalfRange + HalfRange
BY TimerAssumption DEF Range2

(* A time that differs from y by whole periods is read as y. *)
LEMMA SignedIs ==
  ASSUME NEW k \in Int, NEW y \in -HalfRange .. HalfRange - 1
  PROVE  Signed(Range2 * k + y) = y
<1> DEFINE x == Range2 * k + y
<1>0. HalfRange \in Nat \ {0} /\ Range2 \in Nat \ {0} /\ Range2 = HalfRange + HalfRange
  BY PeriodIs
<1>1. CASE y >= 0
  <2>1. y \in 0 .. Range2 - 1
    BY <1>0, <1>1
  <2>2. Wrap(x) = y
    BY <1>0, <2>1, ModUnique DEF Wrap
  <2> QED
    BY <1>0, <2>2, <1>1 DEF Signed
<1>2. CASE y < 0
  <2>1. y + Range2 \in 0 .. Range2 - 1 /\ k - 1 \in Int
    BY <1>0, <1>2
  <2>2. (Range2 * (k - 1) + (y + Range2)) % Range2 = y + Range2
    BY <1>0, <2>1, ModUnique
  <2>3. Range2 * (k - 1) + (y + Range2) = x
    BY <1>0
  <2>4. Wrap(x) = y + Range2
    BY <2>2, <2>3 DEF Wrap
  <2> QED
    BY <1>0, <2>4, <1>2 DEF Signed
<1> QED
  BY <1>1, <1>2, <1>0

LEMMA WrapIs ==
  ASSUME NEW x \in Int
  PROVE  /\ Wrap(x) \in 0 .. Range2 - 1
         /\ \E k \in Int : x = Range2 * k + Wrap(x)
BY PeriodIs, ModIs DEF Wrap

LEMMA SignedDiffers ==
  ASSUME NEW x \in Int
  PROVE  /\ Signed(x) \in -HalfRange .. HalfRange - 1
         /\ \E k \in Int : x = Range2 * k + Signed(x)
<1>0. HalfRange \in Nat \ {0} /\ Range2 \in Nat \ {0} /\ Range2 = HalfRange + HalfRange
  BY PeriodIs
<1>1. PICK k \in Int : x = Range2 * k + Wrap(x) /\ Wrap(x) \in 0 .. Range2 - 1
  BY WrapIs
<1>2. CASE Wrap(x) >= HalfRange
  <2>1. Signed(x) = Wrap(x) - Range2
    BY <1>2 DEF Signed
  <2>2. x = Range2 * (k + 1) + Signed(x)
    BY <1>0, <1>1, <2>1
  <2>3. k + 1 \in Int /\ Signed(x) \in -HalfRange .. HalfRange - 1
    BY <1>0, <1>1, <1>2, <2>1
  <2> QED
    BY <2>2, <2>3
<1>3. CASE ~ (Wrap(x) >= HalfRange)
  <2>1. Signed(x) = Wrap(x)
    BY <1>3 DEF Signed
  <2> QED
    BY <1>0, <1>1, <1>3, <2>1
<1> QED
  BY <1>2, <1>3

(* The deadline told at c is within half a period of c. *)
LEMMA DueIsNear ==
  ASSUME NEW tt \in 0 .. Range2 - 1, NEW c \in Nat
  PROVE  /\ DueAt(tt, c) \in Int /\ DueAt(tt, c) - c \in -HalfRange .. HalfRange - 1
         /\ \E k \in Int : tt = Range2 * k + DueAt(tt, c)
<1>0. HalfRange \in Nat \ {0} /\ Range2 \in Nat \ {0} /\ tt \in Int
  BY PeriodIs
<1>1. PICK k \in Int : c = Range2 * k + Wrap(c) /\ Wrap(c) \in 0 .. Range2 - 1
  BY WrapIs
<1> DEFINE s == Signed(tt - Wrap(c))
<1>2. tt - Wrap(c) \in Int
  BY <1>0, <1>1
<1>3. PICK j \in Int : tt - Wrap(c) = Range2 * j + s /\ s \in -HalfRange .. HalfRange - 1
  BY <1>2, SignedDiffers
<1> HIDE DEF s
<1>4. tt = Range2 * (j - k) + (c + s) /\ j - k \in Int
  BY <1>0, <1>1, <1>3
<1>5. DueAt(tt, c) = c + s
  BY DEF DueAt, s
<1>6. c + s \in Int /\ (c + s) - c \in -HalfRange .. HalfRange - 1
  BY <1>0, <1>3
<1> QED
  BY <1>4, <1>5, <1>6

(* It is the only time within half a period that the counter can mean. *)
LEMMA DueIs ==
  ASSUME NEW k \in Int, NEW d \in Int, NEW c \in Nat, d - c \in -HalfRange .. HalfRange - 1
  PROVE  DueAt(Range2 * k + d, c) = d
<1>0. Range2 \in Nat \ {0}
  BY PeriodIs
<1>1. PICK j \in Int : c = Range2 * j + Wrap(c) /\ Wrap(c) \in 0 .. Range2 - 1
  BY WrapIs
<1>2. (Range2 * k + d) - Wrap(c) = Range2 * (k + j) + (d - c) /\ k + j \in Int
  BY <1>0, <1>1
<1>3. Signed((Range2 * k + d) - Wrap(c)) = d - c
  BY <1>2, SignedIs
<1> QED
  BY <1>3 DEF DueAt

(* The clock goes on, and the deadline stays. *)
LEMMA DueStays ==
  ASSUME NEW tt \in 0 .. Range2 - 1, NEW c \in Nat, c + 1 - DueAt(tt, c) <= HalfRange
  PROVE  DueAt(tt, c + 1) = DueAt(tt, c)
<1>0. HalfRange \in Nat \ {0} /\ Range2 \in Nat \ {0} /\ c + 1 \in Nat
  BY PeriodIs
<1> DEFINE d == DueAt(tt, c)
<1>1. PICK k \in Int : d \in Int /\ d - c \in -HalfRange .. HalfRange - 1 /\ tt = Range2 * k + d
  BY DueIsNear
<1>2. c + 1 - d <= HalfRange
  OBVIOUS
<1> HIDE DEF d
<1>3. d - (c + 1) \in -HalfRange .. HalfRange - 1
  BY <1>0, <1>1, <1>2
<1>4. DueAt(Range2 * k + d, c + 1) = d
  BY <1>0, <1>1, <1>3, DueIs
<1> QED
  BY <1>1, <1>4 DEF d

(* A timer that starts at c. *)
LEMMA DueStarts ==
  ASSUME NEW m \in 0 .. HalfRange - 1, NEW c \in Nat
  PROVE  /\ Wrap(m + Wrap(c)) \in 0 .. Range2 - 1
         /\ DueAt(Wrap(m + Wrap(c)), c) = c + m
<1>0. HalfRange \in Nat \ {0} /\ Range2 \in Nat \ {0} /\ m \in Nat
  BY PeriodIs
<1>1. PICK j \in Int : c = Range2 * j + Wrap(c) /\ Wrap(c) \in 0 .. Range2 - 1
  BY WrapIs
<1> DEFINE w == Wrap(c)
           v == Wrap(m + w)
<1>2. m + w \in Int
  BY <1>0, <1>1
<1>3. PICK k \in Int : m + w = Range2 * k + v /\ v \in 0 .. Range2 - 1
  BY <1>2, WrapIs
<1> HIDE DEF v
<1>4. v = Range2 * (- j - k) + (c + m) /\ - j - k \in Int
  BY <1>0, <1>1, <1>3 DEF w
<1>5. DueAt(v, c) = c + m
  <2>1. (c + m) - c \in -HalfRange .. HalfRange - 1 /\ c + m \in Int
    BY <1>0
  <2> QED
    BY <1>4, <2>1, DueIs
<1> QED
  BY <1>3, <1>5 DEF v, w

(* When the run began, at the earliest. *)
Begin == CHOOSE s \in StartTimes : \A x \in StartTimes : s <= x

TimesSound ==
  /\ clock \in 0 .. MaxTime /\ Begin \in StartTimes /\ Begin <= clock
  /\ timeout \in [Timers -> 0 .. Range2 - 1]
  /\ \A m \in Msecs : \A t \in Members(m) : Due(t) <= clock + m /\ Begin <= Due(t)
  /\ wait \in {"none", "limited", "unlimited"} /\ (wait = "unlimited" => Queued = {})

TInv == IInv /\ TimesSound /\ HeadsAreEarliest

-----------------------------------------------------------------------------
(* Queues in order *)

InOrder(q, D) == \A i, j \in 1 .. Len(q) : i < j => D[q[i]] <= D[q[j]]

(* When each timer expires. *)
Dues == [t \in Timers |-> Due(t)]

LEMMA WithoutInOrder ==
  ASSUME NEW q \in Seq(Timers), NEW t \in Timers, NEW D, InOrder(q, D)
  PROVE  InOrder(Without(q, t), D)
<1>1. CASE t \in ToSet(q)
  <2>1. \E k \in DOMAIN q : q[k] = t
    BY <1>1 DEF ToSet
  <2>2. PICK k \in DOMAIN q : Without(q, t) = RemoveAt(q, k)
    BY <1>1, <2>1 DEF Without
  <2>3. k \in 1 .. Len(q) /\ Len(q) \in Nat
    BY LenProperties
  <2> DEFINE r == RemoveAt(q, k)
             f(j) == IF j < k THEN j ELSE j + 1
  <2>4. Len(r) = Len(q) - 1 /\ \A j \in 1 .. Len(q) - 1 : r[j] = IF j < k THEN q[j] ELSE q[j + 1]
    BY <2>3, RemovedAtIs
  <2> HIDE DEF r
  <2>5. \A j \in 1 .. Len(r) : r[j] = q[f(j)] /\ f(j) \in 1 .. Len(q)
    BY <2>3, <2>4
  <2>6. \A i, j \in 1 .. Len(r) : i < j => f(i) < f(j)
    BY <2>3, <2>4
  <2> HIDE DEF f
  <2>7. InOrder(r, D)
    BY <2>5, <2>6 DEF InOrder
  <2> QED
    BY <2>2, <2>7 DEF r
<1>2. CASE t \notin ToSet(q)
  BY <1>2 DEF Without
<1> QED
  BY <1>1, <1>2

LEMMA AppendInOrder ==
  ASSUME NEW q \in Seq(Timers), NEW t \in Timers, NEW D \in [Timers -> Int], InOrder(q, D),
         \A x \in ToSet(q) : D[x] <= D[t]
  PROVE  InOrder(Append(q, t), D)
<1> DEFINE r == Append(q, t)
           n == Len(q)
<1>1. n \in Nat /\ \A j \in 1 .. n : q[j] \in ToSet(q)
  BY LenProperties DEF ToSet
<1>2. Len(r) = n + 1 /\ r[n + 1] = t /\ \A j \in 1 .. n : r[j] = q[j]
  BY AppendProperties
<1> HIDE DEF r
<1> SUFFICES ASSUME NEW i \in 1 .. n + 1, NEW j \in 1 .. n + 1, i < j
             PROVE  D[r[i]] <= D[r[j]]
  BY <1>2 DEF InOrder, r
<1>3. CASE j = n + 1
  <2>1. i \in 1 .. n
    BY <1>1, <1>3
  <2> QED
    BY <1>1, <1>2, <1>3, <2>1
<1>4. CASE j # n + 1
  <2>1. i \in 1 .. n /\ j \in 1 .. n
    BY <1>1, <1>4
  <2>2. r[i] = q[i] /\ r[j] = q[j]
    BY <1>2, <2>1
  <2>3. D[q[i]] <= D[q[j]]
    BY <2>1 DEF InOrder
  <2> QED
    BY <2>2, <2>3
<1> QED
  BY <1>3, <1>4

(* Other times for timers that are not in the queue. *)
LEMMA OrderOfMembers ==
  ASSUME NEW q \in Seq(Timers), NEW D, NEW F, InOrder(q, D), \A x \in ToSet(q) : F[x] = D[x]
  PROVE  InOrder(q, F)
<1>1. \A j \in 1 .. Len(q) : q[j] \in ToSet(q)
  BY LenProperties DEF ToSet
<1> QED
  BY <1>1 DEF InOrder

(* The first k go to the end, with a time that is not less than any. *)
LEMMA RotatedInOrder ==
  ASSUME NEW q \in Seq(Timers), IsInjective(q), NEW k \in 0 .. Len(q),
         NEW D \in [Timers -> Int], NEW F \in [Timers -> Int], NEW d \in Int, InOrder(q, D),
         \A x \in ToSet(q) : D[x] <= d,
         \A j \in 1 .. k : F[q[j]] = d,
         \A j \in 1 .. Len(q) : j > k => F[q[j]] = D[q[j]]
  PROVE  InOrder(SubSeq(q, k + 1, Len(q)) \o SubSeq(q, 1, k), F)
<1> DEFINE r == SubSeq(q, k + 1, Len(q)) \o SubSeq(q, 1, k)
           n == Len(q)
<1>1. n \in Nat /\ k \in 0 .. n /\ \A j \in 1 .. n : q[j] \in ToSet(q) /\ q[j] \in Timers
  BY LenProperties, ElementOfSeq DEF ToSet
<1>2. /\ Len(r) = n
      /\ \A j \in 1 .. n : r[j] = IF j <= n - k THEN q[k + j] ELSE q[j - (n - k)]
  BY RotatedIs
<1>3. /\ \A j \in 1 .. n : D[q[j]] <= d /\ (j > k => F[q[j]] = D[q[j]])
      /\ \A i, j \in 1 .. n : i < j => D[q[i]] <= D[q[j]]
  BY <1>1 DEF InOrder
<1> HIDE DEF r, n
<1> SUFFICES ASSUME NEW i \in 1 .. n, NEW j \in 1 .. n, i < j
             PROVE  F[r[i]] <= F[r[j]]
  BY <1>2 DEF InOrder, r
<1>4. CASE j <= n - k
  <2>1. k + i \in 1 .. n /\ k + j \in 1 .. n /\ k + i > k /\ k + j > k /\ k + i < k + j /\ i <= n - k
    BY <1>1, <1>4
  <2>2. r[i] = q[k + i] /\ r[j] = q[k + j]
    BY <1>2, <1>4, <2>1
  <2>3. F[q[k + i]] = D[q[k + i]] /\ F[q[k + j]] = D[q[k + j]]
    BY <1>3, <2>1
  <2>4. D[q[k + i]] <= D[q[k + j]]
    BY <1>3, <2>1
  <2> QED
    BY <2>2, <2>3, <2>4
<1>5. CASE ~ (j <= n - k)
  <2>1. j - (n - k) \in 1 .. k
    BY <1>1, <1>5
  <2>2. F[r[j]] = d
    BY <1>2, <1>5, <2>1
  <2>3. F[r[i]] <= d
    <3>1. CASE i <= n - k
      <4>1. k + i \in 1 .. n /\ k + i > k /\ r[i] = q[k + i]
        BY <1>1, <1>2, <3>1
      <4> QED
        BY <1>3, <4>1
    <3>2. CASE ~ (i <= n - k)
      <4>1. i - (n - k) \in 1 .. k /\ r[i] = q[i - (n - k)]
        BY <1>1, <1>2, <3>2
      <4> QED
        BY <4>1
    <3> QED
      BY <3>1, <3>2
  <2> QED
    BY <2>2, <2>3
<1> QED
  BY <1>4, <1>5

-----------------------------------------------------------------------------
(* Timers that start, stop and start again *)

LEMMA DuesAre ==
  ASSUME TimesSound
  PROVE  /\ Dues \in [Timers -> Int] /\ clock \in Nat
         /\ \A t \in Timers : /\ Dues[t] = Due(t) /\ Due(t) = DueAt(timeout[t], clock)
                              /\ Due(t) \in Int /\ timeout[t] \in 0 .. Range2 - 1
<1>1. clock \in Nat
  BY TimerAssumption DEF TimesSound
<1>2. ASSUME NEW t \in Timers
      PROVE  Due(t) = DueAt(timeout[t], clock) /\ Due(t) \in Int /\ timeout[t] \in 0 .. Range2 - 1
  <2>1. Due(t) = DueAt(timeout[t], clock)
    BY DEF Due, DueAt, get_milliseconds
  <2>2. timeout[t] \in 0 .. Range2 - 1
    BY DEF TimesSound
  <2> QED
    BY <1>1, <2>1, <2>2, DueIsNear
<1> QED
  BY <1>1, <1>2 DEF Dues

LEMMA BeginIs ==
  ASSUME TimesSound
  PROVE  Begin \in Nat /\ MaxTime \in Nat /\ HalfRange \in Nat /\ (Short => MaxTime - Begin < HalfRange)
BY TimerAssumption DEF TimesSound, Short

LEMMA OrderIs ==
  ASSUME IInv
  PROVE  HeadsAreEarliest <=> \A m \in Msecs : InOrder(queue[m], Dues)
<1>1. \A m \in Msecs : \A i \in 1 .. Len(queue[m]) : queue[m][i] \in Timers
  BY ElementOfSeq DEF IInv, Lists
<1> QED
  BY <1>1 DEF HeadsAreEarliest, InOrder, Dues

(* t is taken from the queues it can be in, and put at the end of those of S. *)
PlacedIs(t, S) ==
  /\ \A l \in Msecs : queue'[l] = IF l \in S THEN Append(Without(queue[l], t), t)
                                             ELSE Without(queue[l], t)
  /\ timeout' \in [Timers -> 0 .. Range2 - 1]
  /\ \A x \in Timers \ {t} : timeout'[x] = timeout[x]
  /\ \A l \in S : timeout'[t] = Wrap(l + get_milliseconds)
  /\ clock' = clock

LEMMA PlacedMembers ==
  ASSUME IInv, NEW t \in Timers, NEW S \in SUBSET Msecs, PlacedIs(t, S), NEW l \in Msecs
  PROVE  Members(l)' = (Members(l) \ {t}) \cup (IF l \in S THEN {t} ELSE {})
<1>1. queue[l] \in Seq(Timers) /\ IsInjective(queue[l])
  BY OneQueue DEF Lists
<1>2. /\ ToSet(Without(queue[l], t)) = ToSet(queue[l]) \ {t}
      /\ ToSet(Append(Without(queue[l], t), t)) = ToSet(queue[l]) \cup {t}
  BY <1>1, Left, ToTheEnd
<1>3. Members(l)' = ToSet(queue'[l])
  BY DEF Members
<1> QED
  BY <1>2, <1>3 DEF PlacedIs, Members

LEMMA PlacedDues ==
  ASSUME Short, TimesSound, NEW t \in Timers, NEW S \in SUBSET Msecs, PlacedIs(t, S)
  PROVE  /\ \A x \in Timers \ {t} : Due(x)' = Due(x)
         /\ \A l \in S : Due(t)' = clock + l
         /\ \A x \in Timers : Due(x)' \in Int
<1>1. \A x \in Timers : Due(x)' = DueAt(timeout'[x], clock)
  BY DEF Due, DueAt, get_milliseconds, PlacedIs
<1>2. \A x \in Timers : timeout'[x] \in 0 .. Range2 - 1
  BY DEF PlacedIs
<1>3. ASSUME NEW x \in Timers \ {t} PROVE Due(x)' = Due(x)
  BY <1>1, DuesAre DEF PlacedIs
<1>4. ASSUME NEW l \in S PROVE Due(t)' = clock + l
  <2>1. l \in 0 .. HalfRange - 1
    BY TimerAssumption DEF Short
  <2>2. timeout'[t] = Wrap(l + Wrap(clock))
    BY DEF PlacedIs, get_milliseconds
  <2> QED
    BY <1>1, <2>1, <2>2, DuesAre, DueStarts
<1>5. \A x \in Timers : Due(x)' \in Int
  BY <1>1, <1>2, DuesAre, DueIsNear
<1> QED
  BY <1>3, <1>4, <1>5

LEMMA PlacedKeeps ==
  ASSUME Short, TInv, IInv', NEW t \in Timers, NEW S \in SUBSET Msecs, PlacedIs(t, S),
         wait' \in {wait, "none"}, wait' = "unlimited" => S = {}
  PROVE  TInv'
<1>1. /\ \A x \in Timers \ {t} : Due(x)' = Due(x)
      /\ \A l \in S : Due(t)' = clock + l
      /\ \A x \in Timers : Due(x)' \in Int
  BY PlacedDues DEF TInv
<1>2. \A l \in Msecs : Members(l)' = (Members(l) \ {t}) \cup (IF l \in S THEN {t} ELSE {})
  BY PlacedMembers DEF TInv
<1>3. \A l \in Msecs : Members(l) \subseteq Timers
  BY ElementOfSeq, LenProperties DEF TInv, IInv, Lists, Members, ToSet
<1>4. clock \in 0 .. MaxTime /\ Begin \in StartTimes /\ Begin <= clock /\ clock \in Nat /\ Begin \in Nat
  BY BeginIs, DuesAre DEF TInv, TimesSound
<1>5. TimesSound'
  <2>1. ASSUME NEW l \in Msecs, NEW x \in Members(l)'
        PROVE  Due(x)' <= clock + l /\ Begin <= Due(x)'
    <3>1. CASE x = t
      <4>1. l \in S
        BY <1>2, <2>1, <3>1
      <4>2. Due(x)' = clock + l /\ l \in Nat
        BY <1>1, <3>1, <4>1, TimerAssumption
      <4> QED
        BY <1>4, <4>2
    <3>2. CASE x # t
      <4>1. x \in Members(l) /\ x \in Timers
        BY <1>2, <1>3, <2>1, <3>2
      <4>2. Due(x)' = Due(x)
        BY <1>1, <3>2, <4>1
      <4> QED
        BY <4>1, <4>2 DEF TInv, TimesSound
    <3> QED
      BY <3>1, <3>2
  <2>2. wait' = "unlimited" => Queued' = {}
    <3> SUFFICES ASSUME wait' = "unlimited" PROVE Queued' = {}
      OBVIOUS
    <3>1. Queued = {} /\ S = {}
      BY DEF TInv, TimesSound
    <3>2. \A l \in Msecs : Members(l)' = {}
      BY <1>2, <3>1 DEF Queued
    <3> QED
      BY <3>2 DEF Queued
  <2>3. /\ clock' = clock /\ timeout' \in [Timers -> 0 .. Range2 - 1]
        /\ wait' \in {"none", "limited", "unlimited"}
    BY DEF PlacedIs, TInv, TimesSound
  <2> QED
    BY <1>4, <2>1, <2>2, <2>3 DEF TimesSound
<1>6. HeadsAreEarliest'
  <2> DEFINE D == [x \in Timers |-> Due(x)']
  <2>1. D \in [Timers -> Int] /\ \A x \in Timers : D[x] = Due(x)'
    BY <1>1
  <2>2. Dues' = D
    BY DEF Dues
  <2> HIDE DEF D
  <2>3. ASSUME NEW l \in Msecs PROVE InOrder(queue'[l], D)
    <3> DEFINE q == Without(queue[l], t)
    <3>1. queue[l] \in Seq(Timers) /\ IsInjective(queue[l])
      BY OneQueue DEF Lists, TInv
    <3>2. q \in Seq(Timers) /\ ToSet(q) = Members(l) \ {t}
      BY <3>1, Left DEF Members
    <3>3. InOrder(q, Dues)
      BY <3>1, WithoutInOrder, OrderIs DEF TInv
    <3>4. \A x \in ToSet(q) : D[x] = Dues[x] /\ D[x] <= clock + l
      <4> TAKE x \in ToSet(q)
      <4>1. x \in Members(l) /\ x \in Timers \ {t}
        BY <1>3, <3>2
      <4>2. D[x] = Due(x) /\ Dues[x] = Due(x)
        BY <1>1, <2>1, <4>1, DuesAre DEF TInv
      <4>3. Due(x) <= clock + l
        BY <4>1 DEF TInv, TimesSound
      <4> QED
        BY <4>2, <4>3
    <3> HIDE DEF q
    <3>5. InOrder(q, D)
      BY <3>2, <3>3, <3>4, OrderOfMembers
    <3>6. CASE l \in S
      <4>1. queue'[l] = Append(q, t)
        BY <3>6 DEF PlacedIs, q
      <4>2. D[t] = clock + l
        BY <1>1, <2>1, <3>6
      <4>3. \A x \in ToSet(q) : D[x] <= D[t]
        BY <3>4, <4>2
      <4> QED
        BY <2>1, <3>2, <3>5, <4>1, <4>3, AppendInOrder
    <3>7. CASE l \notin S
      BY <3>5, <3>7 DEF PlacedIs, q
    <3> QED
      BY <3>6, <3>7
  <2>4. HeadsAreEarliest' <=> \A l \in Msecs : InOrder(queue'[l], Dues')
    <3>1. \A m \in Msecs : \A i \in 1 .. Len(queue'[m]) : queue'[m][i] \in Timers
      BY ElementOfSeq DEF IInv, Lists
    <3> QED
      BY <3>1 DEF HeadsAreEarliest, InOrder, Dues
  <2> QED
    BY <2>2, <2>3, <2>4
<1> QED
  BY <1>5, <1>6 DEF TInv

LEMMA InfiniteIsNone ==
  ASSUME Short
  PROVE  Infinite \notin Msecs /\ \A m \in Msecs : m # Infinite /\ m \in Lists /\ m \in Nat
BY PeriodIs, TimerAssumption DEF Short, Infinite, Lists

LEMMA WithoutNone ==
  ASSUME NEW q, NEW t, t \notin ToSet(q)
  PROVE  Without(q, t) = q
BY DEF Without

LEMMA StartedAt ==
  ASSUME NEW m \in Nat, NEW c \in Nat
  PROVE  Wrap(m + Wrap(c)) \in 0 .. Range2 - 1
<1>1. Wrap(c) \in Int
  BY WrapIs, PeriodIs
<1> QED
  BY <1>1, WrapIs

LEMMA ResetIs ==
  ASSUME Short, TInv, NEW t \in Timers, NEW m \in Lists, t \in Members(m), NEW now,
         timeout_reset(t, m, now)
  PROVE  /\ m = Infinite => UNCHANGED <<queue, timeout>>
         /\ m # Infinite /\ now = get_milliseconds /\ clock' = clock => m \in Msecs /\ PlacedIs(t, {m})
<1>1. queue \in [Lists -> Seq(Timers)] /\ timeout \in [Timers -> 0 .. Range2 - 1] /\ clock \in Nat
  BY DuesAre DEF TInv, IInv, TimesSound
<1>2. CASE m = Infinite
  BY <1>1, <1>2 DEF timeout_reset
<1>3. CASE m # Infinite /\ now = get_milliseconds /\ clock' = clock
  <2>1. m \in Msecs /\ m \in Nat
    BY <1>3, InfiniteIsNone DEF Lists
  <2>2. /\ queue' = [queue EXCEPT ![m] = Append(Without(@, t), t)]
        /\ timeout' = [timeout EXCEPT ![t] = Wrap(m + now)]
    BY <1>3 DEF timeout_reset
  <2>3. Wrap(m + now) \in 0 .. Range2 - 1
    BY <1>1, <1>3, <2>1, StartedAt DEF get_milliseconds
  <2>4. \A l \in Msecs : queue'[l] = IF l = m THEN Append(Without(queue[l], t), t) ELSE Without(queue[l], t)
    <3> TAKE l \in Msecs
    <3>1. l \in Lists
      BY DEF Lists
    <3>2. CASE l = m
      BY <1>1, <2>2, <3>1, <3>2
    <3>3. CASE l # m
      <4>1. t \notin ToSet(queue[l])
        BY <3>1, <3>3, OneQueue DEF TInv, Members
      <4> QED
        BY <1>1, <2>2, <3>1, <3>3, <4>1, WithoutNone
    <3> QED
      BY <3>2, <3>3
  <2> QED
    BY <1>1, <1>3, <2>1, <2>2, <2>3, <2>4 DEF PlacedIs
<1> QED
  BY <1>2, <1>3

LEMMA AddIs ==
  ASSUME Short, TInv, NEW t \in Timers, NEW m \in Lists, timeout_add(t, m), clock' = clock
  PROVE  \/ m \in Msecs /\ PlacedIs(t, {m})
         \/ m = Infinite /\ PlacedIs(t, {})
         \/ m = Infinite /\ t \in Members(m) /\ UNCHANGED <<queue, timeout>>
<1>1. CASE t \in Members(m) /\ timeout_reset(t, m, get_milliseconds)
  BY <1>1, ResetIs
<1>2. CASE /\ t \notin Members(m) /\ queue' = [Taken(t) EXCEPT ![m] = Append(@, t)]
           /\ timeout' = [timeout EXCEPT ![t] = Wrap(m + get_milliseconds)]
  <2>1. timeout \in [Timers -> 0 .. Range2 - 1] /\ clock \in Nat
    BY DuesAre DEF TInv, TimesSound
  <2>2. m \in Nat
    BY InfiniteIsNone, PeriodIs DEF Lists, Infinite
  <2>3. Wrap(m + get_milliseconds) \in 0 .. Range2 - 1
    BY <2>1, <2>2, StartedAt DEF get_milliseconds
  <2>4. \A l \in Msecs : queue'[l] = IF l = m THEN Append(Without(queue[l], t), t) ELSE Without(queue[l], t)
    <3> TAKE l \in Msecs
    <3>1. l \in Lists /\ Taken(t) = [k \in Lists |-> Without(queue[k], t)]
      BY DEF Lists, Taken
    <3> QED
      BY <1>2, <3>1
  <2>5. CASE m \in Msecs
    BY <1>2, <2>1, <2>3, <2>4, <2>5 DEF PlacedIs
  <2>6. CASE m = Infinite
    <3>1. \A l \in Msecs : queue'[l] = Without(queue[l], t)
      BY <2>4, <2>6, InfiniteIsNone
    <3> QED
      BY <1>2, <2>1, <2>3, <2>6, <3>1 DEF PlacedIs
  <2> QED
    BY <2>5, <2>6 DEF Lists
<1> QED
  BY <1>1, <1>2 DEF timeout_add

LEMMA StopIs ==
  ASSUME TInv, NEW t \in Timers, Stop(t)
  PROVE  PlacedIs(t, {})
<1>1. timeout \in [Timers -> 0 .. Range2 - 1] /\ 0 \in 0 .. Range2 - 1
  BY PeriodIs DEF TInv, TimesSound
<1> QED
  BY <1>1 DEF Stop, Taken, PlacedIs, Lists

(* Only the loop itself waits, and it does not wait without a limit for a timer. *)
LEMMA StartKeeps ==
  ASSUME Short, Unhurried, TInv, IInv', NEW t \in Timers, NEW m \in Lists, Start(t, m)
  PROVE  TInv'
<1>1. clock' = clock /\ wait' = wait /\ wait # "unlimited" /\ timeout_add(t, m)
  BY DEF Start, Unhurried
<1>2. CASE m \in Msecs /\ PlacedIs(t, {m})
  BY <1>1, <1>2, PlacedKeeps
<1>3. CASE PlacedIs(t, {})
  BY <1>1, <1>3, PlacedKeeps
<1>4. CASE UNCHANGED <<queue, timeout>>
  BY <1>1, <1>4 DEF TInv, TimesSound, HeadsAreEarliest, Due, Members, Queued, get_milliseconds
<1> QED
  BY <1>1, <1>2, <1>3, <1>4, AddIs

LEMMA TriggerKeeps ==
  ASSUME Short, TInv, IInv', NEW t \in Timers, Trigger(t)
  PROVE  TInv'
<1>1. PICK m \in Lists : t \in Members(m) /\ timeout_reset(t, m, get_milliseconds)
  BY DEF Trigger
<1>2. clock' = clock /\ wait' = wait
  BY DEF Trigger
<1>3. CASE m = Infinite
  <2>1. UNCHANGED <<queue, timeout>>
    BY <1>1, <1>3, ResetIs
  <2> QED
    BY <1>2, <2>1 DEF TInv, TimesSound, HeadsAreEarliest, Due, Members, Queued, get_milliseconds
<1>4. CASE m # Infinite
  <2>1. m \in Msecs /\ PlacedIs(t, {m})
    BY <1>1, <1>2, <1>4, ResetIs
  <2>2. wait # "unlimited"
    BY <1>1, <2>1 DEF TInv, TimesSound, Queued
  <2> QED
    BY <1>2, <2>1, <2>2, PlacedKeeps
<1> QED
  BY <1>3, <1>4

LEMMA FindsKeeps ==
  ASSUME Short, TInv, IInv', NEW t \in Timers, WaitFinds(t)
  PROVE  TInv'
<1>1. clock' = clock /\ wait' = "none"
  BY DEF WaitFinds
<1>2. CASE UNCHANGED <<queue, timeout>>
  BY <1>1, <1>2 DEF TInv, TimesSound, HeadsAreEarliest, Due, Members, Queued, get_milliseconds
<1>3. ASSUME NEW m \in Lists, t \in Members(m),
             timeout_reset(t, m, IF wait = "limited" THEN get_milliseconds ELSE Infinite)
      PROVE  TInv'
  <2>1. CASE m = Infinite
    BY <1>2, <1>3, <2>1, ResetIs
  <2>2. CASE m # Infinite
    <3>1. t \in Queued
      BY <1>3, <2>2 DEF Queued, Lists
    <3>2. wait = "limited"
      BY <3>1 DEF TInv, TimesSound, WaitFinds
    <3>3. m \in Msecs /\ PlacedIs(t, {m})
      BY <1>1, <1>3, <2>2, <3>2, ResetIs
    <3> QED
      BY <1>1, <3>3, PlacedKeeps
  <2> QED
    BY <2>1, <2>2
<1> QED
  BY <1>2, <1>3 DEF WaitFinds

-----------------------------------------------------------------------------
(* The clock, and the timers that expire *)

LEMMA WaitBeginsKeeps ==
  ASSUME TInv, NEW limit \in LoopLimits, WaitBegins(limit)
  PROVE  TInv'
<1>1. UNCHANGED <<clock, queue, timeout>> /\ wait' \in {"limited", "unlimited"}
  BY DEF WaitBegins
<1>2. ASSUME wait' = "unlimited" PROVE Queued = {}
  <2>1. Heads = {}
    BY <1>2 DEF WaitBegins, Limits
  <2>2. \A m \in Msecs : queue[m] = <<>>
    BY <2>1 DEF Heads
  <2> QED
    BY <2>2, EmptyAsSet DEF Queued, Members
<1>3. IInv'
  BY <1>1 DEF TInv, IInv, InOneQueue, Members
<1> QED
  BY <1>1, <1>2, <1>3 DEF TInv, TimesSound, HeadsAreEarliest, Due, Members, Queued, get_milliseconds

LEMMA TickDues ==
  ASSUME Short, TimesSound, Tick, NEW m \in Msecs, NEW t \in Members(m), t \in Timers
  PROVE  Due(t)' = Due(t)
<1>1. clock \in Nat /\ Due(t) = DueAt(timeout[t], clock) /\ Due(t) \in Int /\ timeout[t] \in 0 .. Range2 - 1
  BY DuesAre
<1>2. clock' = clock + 1 /\ clock < MaxTime /\ timeout' = timeout
  BY DEF Tick
<1>3. Due(t)' = DueAt(timeout[t], clock + 1)
  BY <1>2 DEF Due, DueAt, get_milliseconds
<1>4. Begin <= Due(t)
  BY DEF TimesSound
<1>5. clock + 1 - DueAt(timeout[t], clock) <= HalfRange
  <2>1. Begin \in Nat /\ MaxTime \in Nat /\ HalfRange \in Nat /\ MaxTime - Begin < HalfRange
    BY BeginIs
  <2> QED
    BY <1>1, <1>2, <1>4, <2>1
<1> QED
  BY <1>1, <1>3, <1>5, DueStays

LEMMA TickKeeps ==
  ASSUME Short, TInv, Tick
  PROVE  TInv'
<1>1. clock' = clock + 1 /\ clock < MaxTime /\ UNCHANGED <<queue, timeout, wait>>
  BY DEF Tick
<1>2. \A m \in Msecs : \A t \in Members(m) : t \in Timers /\ Due(t)' = Due(t) /\ Due(t) \in Int
  <2>1. \A m \in Msecs : Members(m) \subseteq Timers
    BY ElementOfSeq, LenProperties DEF TInv, IInv, Lists, Members, ToSet
  <2> QED
    BY <2>1, TickDues, DuesAre DEF TInv
<1>3. IInv'
  BY <1>1 DEF TInv, IInv, InOneQueue, Members
<1>4. TimesSound'
  <2>1. clock \in Nat /\ MaxTime \in Nat /\ Begin \in Nat /\ Msecs \subseteq Nat
    BY BeginIs, TimerAssumption, DuesAre DEF TInv
  <2>2. clock' \in 0 .. MaxTime /\ Begin \in StartTimes /\ Begin <= clock'
    BY <1>1, <2>1 DEF TInv, TimesSound
  <2>3. ASSUME NEW m \in Msecs, NEW t \in Members(m)
        PROVE  Due(t)' <= clock' + m /\ Begin <= Due(t)'
    <3>1. Due(t) <= clock + m /\ Begin <= Due(t)
      BY DEF TInv, TimesSound
    <3> QED
      BY <1>1, <1>2, <2>1, <3>1
  <2> QED
    BY <1>1, <2>2, <2>3 DEF TInv, TimesSound, Members, Queued
<1>5. HeadsAreEarliest'
  <2>1. \A m \in Msecs : \A i \in 1 .. Len(queue[m]) : Due(queue[m][i])' = Due(queue[m][i])
    <3> TAKE m \in Msecs
    <3> TAKE i \in 1 .. Len(queue[m])
    <3>1. queue[m][i] \in Members(m)
      BY LenProperties DEF Members, ToSet, TInv, IInv, Lists
    <3>2. PICK t \in Timers : t = queue[m][i] /\ Due(t)' = Due(t)
      BY <1>2, <3>1
    <3>3. queue'[m][i] = t
      BY <1>1, <3>2
    <3>4. Due(queue[m][i])' = Due(t)'
      BY <3>3 DEF Due
    <3> QED
      BY <3>2, <3>4
  <2> QED
    BY <1>1, <2>1 DEF TInv, HeadsAreEarliest
<1> QED
  BY <1>3, <1>4, <1>5 DEF TInv

(* What has expired is due again after its timeout; the rest is due as it was. *)
LEMMA TimesOutIs ==
  ASSUME Short, TInv, WaitTimesOut
  PROVE  /\ timeout' \in [Timers -> 0 .. Range2 - 1]
         /\ \A t \in Timers : Due(t)' \in Int
         /\ \A m \in Msecs : \A t \in Members(m) :
              Due(t)' = IF t \in ToSet(Expired(queue[m])) THEN clock + m ELSE Due(t)
<1> DEFINE ms(t) == {m \in Msecs : t \in ToSet(Expired(queue[m]))}
           tt(t) == IF ms(t) = {} THEN timeout[t]
                    ELSE Wrap((CHOOSE m \in ms(t) : TRUE) + get_milliseconds)
<1>1. timeout' = [t \in Timers |-> tt(t)] /\ clock' = clock
  BY DEF WaitTimesOut
<1>2. ASSUME NEW t \in Timers PROVE tt(t) \in 0 .. Range2 - 1
  <2>1. CASE ms(t) = {}
    BY <2>1, DuesAre DEF TInv
  <2>2. CASE ms(t) # {}
    <3>1. (CHOOSE m \in ms(t) : TRUE) \in Nat
      BY <2>2, TimerAssumption
    <3> HIDE DEF ms
    <3> QED
      BY <2>2, <3>1, StartedAt, DuesAre DEF TInv, get_milliseconds
  <2> QED
    BY <2>1, <2>2
<1>3. \A m \in Msecs : queue[m] \in Seq(Timers) /\ ToSet(Expired(queue[m])) \subseteq Members(m)
  <2> TAKE m \in Msecs
  <2>1. queue[m] \in Seq(Timers)
    BY DEF TInv, IInv, Lists
  <2>2. PICK k \in 0 .. Len(queue[m]) : Expired(queue[m]) = SubSeq(queue[m], 1, k)
    BY <2>1, ExpiredIs
  <2> DEFINE q == queue[m]
  <2>3. Len(q) \in Nat /\ DOMAIN q = 1 .. Len(q) /\ \A j \in 1 .. Len(q) : q[j] \in Timers
    BY <2>1, LenProperties, ElementOfSeq
  <2>4. /\ SubSeq(q, 1, k) \in Seq(Timers) /\ Len(SubSeq(q, 1, k)) = k
        /\ \A j \in 1 .. k : SubSeq(q, 1, k)[j] = q[j]
    BY <2>3, SubSeqProperties
  <2>5. DOMAIN SubSeq(q, 1, k) = 1 .. k
    BY <2>4, LenProperties
  <2>6. ToSet(SubSeq(q, 1, k)) \subseteq ToSet(q)
    BY <2>3, <2>4, <2>5 DEF ToSet
  <2> QED
    BY <2>1, <2>2, <2>6 DEF Members
<1>4. \A t \in Timers : Due(t)' = DueAt(tt(t), clock)
  <2> TAKE t \in Timers
  <2>1. timeout'[t] = tt(t)
    BY <1>1
  <2> HIDE DEF tt
  <2> QED
    BY <1>1, <2>1 DEF Due, DueAt, get_milliseconds
<1>5. ASSUME NEW m \in Msecs, NEW t \in Members(m)
      PROVE  Due(t)' = IF t \in ToSet(Expired(queue[m])) THEN clock + m ELSE Due(t)
  <2>1. t \in Timers
    BY <1>3, ElementOfSeq, LenProperties DEF Members, ToSet
  <2>2. \A l \in Msecs : l # m => t \notin ToSet(Expired(queue[l]))
    <3>1. \A l \in Msecs : l # m => Members(l) \cap Members(m) = {}
      BY OneQueue DEF TInv, Lists
    <3> QED
      BY <1>3, <3>1
  <2>3. CASE t \in ToSet(Expired(queue[m]))
    <3>1. ms(t) = {m}
      BY <2>2, <2>3
    <3>2. tt(t) = Wrap(m + Wrap(clock))
      BY <3>1 DEF get_milliseconds
    <3>3. m \in 0 .. HalfRange - 1
      BY TimerAssumption DEF Short
    <3> HIDE DEF tt, ms
    <3> QED
      BY <1>4, <2>1, <2>3, <3>2, <3>3, DueStarts, DuesAre DEF TInv
  <2>4. CASE t \notin ToSet(Expired(queue[m]))
    <3>1. ms(t) = {}
      BY <2>2, <2>4
    <3>2. tt(t) = timeout[t]
      BY <3>1
    <3> HIDE DEF tt, ms
    <3> QED
      BY <1>4, <2>1, <2>4, <3>2, DuesAre DEF TInv
  <2> QED
    BY <2>3, <2>4
<1> HIDE DEF tt
<1>6. \A t \in Timers : Due(t)' \in Int
  BY <1>2, <1>4, DueIsNear, DuesAre DEF TInv
<1> QED
  BY <1>1, <1>2, <1>5, <1>6

(* The expired are the first k of a queue. *)
LEMMA ExpiredMembers ==
  ASSUME NEW q \in Seq(Timers), IsInjective(q)
  PROVE  \E k \in 0 .. Len(q) :
           /\ Recycled(q) = SubSeq(q, k + 1, Len(q)) \o SubSeq(q, 1, k)
           /\ \A j \in 1 .. Len(q) : q[j] \in ToSet(Expired(q)) <=> j <= k
           /\ \A j \in 1 .. k : ~Late(q[j])
           /\ k < Len(q) => Late(q[k + 1])
<1>1. PICK k \in 0 .. Len(q) :
        /\ Expired(q) = SubSeq(q, 1, k) /\ Len(Expired(q)) = k
        /\ \A j \in 1 .. k : ~Late(q[j])
        /\ k < Len(q) => Late(q[k + 1])
  BY ExpiredIs
<1>2. Recycled(q) = SubSeq(q, k + 1, Len(q)) \o SubSeq(q, 1, k)
  BY <1>1 DEF Recycled
<1>3. Len(q) \in Nat /\ DOMAIN q = 1 .. Len(q) /\ \A j \in 1 .. Len(q) : q[j] \in Timers
  BY LenProperties, ElementOfSeq
<1>4. /\ SubSeq(q, 1, k) \in Seq(Timers) /\ Len(SubSeq(q, 1, k)) = k
      /\ \A j \in 1 .. k : SubSeq(q, 1, k)[j] = q[j]
  BY <1>3, SubSeqProperties
<1>5. DOMAIN SubSeq(q, 1, k) = 1 .. k
  BY <1>4, LenProperties
<1>6. \A j \in 1 .. Len(q) : q[j] \in ToSet(Expired(q)) <=> j <= k
  <2> TAKE j \in 1 .. Len(q)
  <2>1. ASSUME j <= k PROVE q[j] \in ToSet(Expired(q))
    <3>1. j \in 1 .. k
      BY <2>1
    <3> QED
      BY <1>1, <1>4, <1>5, <3>1 DEF ToSet
  <2>2. ASSUME q[j] \in ToSet(Expired(q)) PROVE j <= k
    <3>1. PICK i \in 1 .. k : q[j] = q[i]
      BY <1>1, <1>4, <1>5, <2>2 DEF ToSet
    <3>2. i = j
      BY <1>3, <3>1 DEF IsInjective
    <3> QED
      BY <3>2
  <2> QED
    BY <2>1, <2>2
<1> QED
  BY <1>1, <1>2, <1>6

LEMMA TimesOutKeepsTimes ==
  ASSUME Short, TInv, IInv', WaitTimesOut
  PROVE  TInv'
<1>1. /\ \A t \in Timers : Due(t)' \in Int
      /\ \A m \in Msecs : \A t \in Members(m) :
           Due(t)' = IF t \in ToSet(Expired(queue[m])) THEN clock + m ELSE Due(t)
      /\ timeout' \in [Timers -> 0 .. Range2 - 1]
  BY TimesOutIs
<1>2. /\ clock' = clock /\ wait' = "none"
      /\ \A m \in Msecs : queue'[m] = Recycled(queue[m])
  BY InfiniteIsNone DEF WaitTimesOut
<1>3. \A m \in Msecs : /\ queue[m] \in Seq(Timers) /\ IsInjective(queue[m])
                       /\ ToSet(queue[m]) = Members(m) /\ Members(m)' = Members(m)
  <2> TAKE m \in Msecs
  <2>1. queue[m] \in Seq(Timers) /\ IsInjective(queue[m])
    BY OneQueue DEF TInv, Lists
  <2>2. ToSet(Recycled(queue[m])) = ToSet(queue[m])
    BY <2>1, RecycledIsTurned
  <2>3. Members(m)' = ToSet(queue'[m]) /\ Members(m) = ToSet(queue[m])
    BY DEF Members
  <2> QED
    BY <1>2, <2>1, <2>2, <2>3
<1>4. \A m \in Msecs : \A t \in Members(m) : t \in Timers
  BY <1>3, ElementOfSeq, LenProperties DEF ToSet
<1>5. clock \in Nat /\ Begin \in Nat /\ Msecs \subseteq Nat /\ Begin <= clock
  BY BeginIs, TimerAssumption, DuesAre DEF TInv, TimesSound
<1>6. \A m \in Msecs : \A t \in Members(m) : Due(t) <= clock + m /\ Begin <= Due(t)
  BY DEF TInv, TimesSound
<1>7. TimesSound'
  <2>1. ASSUME NEW m \in Msecs, NEW t \in Members(m)'
        PROVE  Due(t)' <= clock' + m /\ Begin <= Due(t)'
    <3>1. t \in Members(m)
      BY <1>3
    <3>2. Due(t)' = clock + m \/ Due(t)' = Due(t)
      BY <1>1, <3>1
    <3>3. CASE Due(t)' = clock + m
      BY <1>2, <1>5, <3>3
    <3>4. CASE Due(t)' = Due(t)
      BY <1>2, <1>6, <3>1, <3>4
    <3> QED
      BY <3>2, <3>3, <3>4
  <2>2. wait' \in {"none", "limited", "unlimited"} /\ (wait' = "unlimited" => Queued' = {})
    BY <1>2
  <2>3. clock' \in 0 .. MaxTime /\ Begin \in StartTimes /\ Begin <= clock'
    BY <1>2 DEF TInv, TimesSound
  <2> QED
    BY <1>1, <2>1, <2>2, <2>3 DEF TimesSound
<1>8. HeadsAreEarliest'
  <2> DEFINE D == [x \in Timers |-> Due(x)']
  <2>1. D \in [Timers -> Int] /\ \A x \in Timers : D[x] = Due(x)'
    BY <1>1
  <2>2. Dues' = D
    BY DEF Dues
  <2> HIDE DEF D
  <2>3. ASSUME NEW m \in Msecs PROVE InOrder(queue'[m], D)
    <3> DEFINE q == queue[m]
    <3>1. q \in Seq(Timers) /\ IsInjective(q) /\ ToSet(q) = Members(m)
      BY <1>3
    <3>2. PICK k \in 0 .. Len(q) :
            /\ Recycled(q) = SubSeq(q, k + 1, Len(q)) \o SubSeq(q, 1, k)
            /\ \A j \in 1 .. Len(q) : q[j] \in ToSet(Expired(q)) <=> j <= k
      BY <3>1, ExpiredMembers
    <3>3. queue'[m] = Recycled(q)
      BY <1>2
    <3>4. \A t \in Members(m) : D[t] = IF t \in ToSet(Expired(q)) THEN clock + m ELSE Due(t)
      BY <1>1, <1>4, <2>1
    <3>5. InOrder(q, Dues)
      BY OrderIs DEF TInv
    <3>6. \A t \in Members(m) : Dues[t] = Due(t) /\ Dues[t] <= clock + m
      BY <1>4, <1>6, DuesAre DEF TInv
    <3> HIDE DEF q
    <3>7. \A j \in 1 .. Len(q) : q[j] \in Members(m)
      BY <3>1, LenProperties DEF ToSet
    <3>8. Len(q) \in Nat
      BY <3>1, LenProperties
    <3>9. /\ \A j \in 1 .. k : D[q[j]] = clock + m
          /\ \A j \in 1 .. Len(q) : j > k => D[q[j]] = Dues[q[j]]
      <4>1. ASSUME NEW j \in 1 .. k PROVE D[q[j]] = clock + m
        <5>1. j \in 1 .. Len(q) /\ j <= k
          BY <3>8
        <5> QED
          BY <3>2, <3>4, <3>7, <5>1
      <4>2. ASSUME NEW j \in 1 .. Len(q), j > k PROVE D[q[j]] = Dues[q[j]]
        <5>1. ~(j <= k)
          BY <4>2, <3>8
        <5> QED
          BY <3>2, <3>4, <3>6, <3>7, <5>1
      <4> QED
        BY <4>1, <4>2
    <3>10. clock + m \in Int /\ Dues \in [Timers -> Int]
      BY <1>5, DuesAre DEF TInv
    <3>11. \A x \in ToSet(q) : Dues[x] <= clock + m
      BY <3>1, <3>6
    <3>12. InOrder(SubSeq(q, k + 1, Len(q)) \o SubSeq(q, 1, k), D)
      BY <2>1, <3>1, <3>5, <3>9, <3>10, <3>11, RotatedInOrder
    <3> QED
      BY <3>2, <3>3, <3>12
  <2>4. HeadsAreEarliest' <=> \A m \in Msecs : InOrder(queue'[m], Dues')
    <3>1. \A m \in Msecs : \A i \in 1 .. Len(queue'[m]) : queue'[m][i] \in Timers
      BY ElementOfSeq DEF IInv, Lists
    <3> QED
      BY <3>1 DEF HeadsAreEarliest, InOrder, Dues
  <2> QED
    BY <2>2, <2>3, <2>4
<1> QED
  BY <1>7, <1>8 DEF TInv

LEMMA TimesStart == Short /\ Init => TInv
<1> SUFFICES ASSUME Short, Init PROVE TInv
  OBVIOUS
<1>1. \A m \in Lists : queue[m] = <<>> /\ queue[m] \in Seq(Timers)
  BY EmptySeq DEF Init
<1>2. \A m \in Lists : IsInjective(queue[m]) /\ Members(m) = {}
  BY <1>1, EmptyAsSet DEF Members
<1>3. queue \in [Lists -> Seq(Timers)]
  BY <1>1 DEF Init
<1>4. IInv
  BY <1>2, <1>3 DEF IInv, InOneQueue
<1>5. \A m \in Msecs : queue[m] = <<>> /\ Members(m) = {} /\ Len(queue[m]) = 0
  BY <1>1, <1>2 DEF Lists
<1>6. TimesSound
  <2>1. clock \in 0 .. MaxTime /\ Begin \in StartTimes /\ Begin <= clock
    <3>1. StartTimes \in SUBSET Nat /\ StartTimes \subseteq 0 .. MaxTime /\ clock \in StartTimes
      BY TimerAssumption DEF Init
    <3>2. \E s \in StartTimes : \A x \in StartTimes : s <= x
      BY <3>1, LeastExists
    <3> QED
      BY <3>1, <3>2 DEF Begin
  <2>2. timeout \in [Timers -> 0 .. Range2 - 1]
    BY PeriodIs DEF Init
  <2> QED
    BY <1>5, <2>1, <2>2 DEF Init, TimesSound
<1>7. HeadsAreEarliest
  BY <1>5 DEF HeadsAreEarliest
<1> QED
  BY <1>4, <1>6, <1>7 DEF TInv

LEMMA TimesStep == Short /\ Unhurried /\ TInv /\ [Next]_vars => TInv'
<1> SUFFICES ASSUME Short, Unhurried, TInv, [Next]_vars PROVE TInv'
  OBVIOUS
<1>1. IInv'
  BY StepKeeps DEF TInv
<1>2. CASE Tick
  BY <1>2, TickKeeps
<1>3. CASE WaitTimesOut
  BY <1>1, <1>3, TimesOutKeepsTimes
<1>4. ASSUME NEW limit \in LoopLimits, WaitBegins(limit) PROVE TInv'
  BY <1>4, WaitBeginsKeeps
<1>5. ASSUME NEW t \in Timers, Stop(t) PROVE TInv'
  <2>1. PlacedIs(t, {}) /\ wait' = wait
    BY <1>5, StopIs DEF Stop
  <2> QED
    BY <1>1, <2>1, PlacedKeeps
<1>6. ASSUME NEW t \in Timers, Trigger(t) PROVE TInv'
  BY <1>1, <1>6, TriggerKeeps
<1>7. ASSUME NEW t \in Timers, WaitFinds(t) PROVE TInv'
  BY <1>1, <1>7, FindsKeeps
<1>8. ASSUME NEW t \in Timers, NEW m \in Lists, Start(t, m) PROVE TInv'
  BY <1>1, <1>8, StartKeeps
<1>9. CASE UNCHANGED vars
  BY <1>1, <1>9 DEF vars, TInv, TimesSound, HeadsAreEarliest, Due, Members, Queued, get_milliseconds
<1> QED
  BY <1>2, <1>3, <1>4, <1>5, <1>6, <1>7, <1>8, <1>9 DEF Next

LEMMA TInvHolds == ASSUME Short, Unhurried PROVE Spec => []TInv
BY TimesStart, TimesStep, PTL DEF Spec

(* In a run shorter than half a period of the counter, wherever in the period it *)
(* starts, every timeout queue stays in the order of its deadlines, so that what *)
(* timeout_process and timeout_get read of it is enough: whichever timers are    *)
(* started, restarted, stopped, triggered, found and expired.                    *)
THEOREM QueuesInOrder == ASSUME Short, Unhurried PROVE Spec => []HeadsAreEarliest
<1>1. TInv => HeadsAreEarliest
  BY DEF TInv
<1> QED
  BY <1>1, TInvHolds, PTL

-----------------------------------------------------------------------------
(* How long to sleep *)

(* Every time of the run lies in the half periods before and after one overflow. *)
Around(n) ==
  /\ \A s \in StartTimes : Range2 * n - HalfRange <= s
  /\ \A m \in Msecs \cup LoopTimeouts \cup {MinTimeout} : MaxTime + m < Range2 * n + HalfRange

OneOverflow == \E n \in Nat : Around(n)

(* There, the signed comparison is that of the times. *)
LEMMA SignedAround ==
  ASSUME NEW n \in Nat, NEW k \in Int, NEW d \in Int,
         Range2 * n - HalfRange <= d, d < Range2 * n + HalfRange
  PROVE  Signed(Range2 * k + d) = d - Range2 * n
<1>1. HalfRange \in Nat \ {0} /\ Range2 \in Nat \ {0}
  BY PeriodIs
<1>2. Range2 * k + d = Range2 * (k + n) + (d - Range2 * n) /\ k + n \in Int
  BY <1>1
<1>3. Range2 * n \in Int
  BY <1>1
<1>4. d - Range2 * n \in -HalfRange .. HalfRange - 1
  BY <1>1, <1>3
<1> QED
  BY <1>2, <1>4, SignedIs

LEMMA TimesAround ==
  ASSUME TimesSound, NEW n \in Nat, Around(n), NEW d \in Int, Begin <= d,
         NEW m \in Msecs \cup LoopTimeouts \cup {MinTimeout}, d <= clock + m
  PROVE  Range2 * n - HalfRange <= d /\ d < Range2 * n + HalfRange
<1>1. HalfRange \in Nat \ {0} /\ Range2 * n \in Int /\ m \in Nat /\ clock \in Nat /\ clock <= MaxTime
  BY PeriodIs, TimerAssumption DEF TimesSound
<1>2. Begin \in Nat /\ MaxTime \in Nat /\ Begin \in StartTimes
  BY BeginIs DEF TimesSound
<1>3. Range2 * n - HalfRange <= Begin /\ MaxTime + m < Range2 * n + HalfRange
  BY <1>2 DEF Around
<1> QED
  BY <1>1, <1>2, <1>3

LEMMA DueAround ==
  ASSUME TimesSound, NEW n \in Nat, Around(n), NEW m \in Msecs, NEW t \in Members(m), t \in Timers
  PROVE  /\ Signed(timeout[t]) = Due(t) - Range2 * n
         /\ \E k \in Int : timeout[t] = Range2 * k + Due(t)
<1>1. Begin <= Due(t) /\ Due(t) <= clock + m
  BY DEF TimesSound
<1>2. Due(t) \in Int /\ \E k \in Int : timeout[t] = Range2 * k + Due(t)
  BY DuesAre, DueIsNear
<1>3. Range2 * n - HalfRange <= Due(t) /\ Due(t) < Range2 * n + HalfRange
  BY <1>1, <1>2, TimesAround
<1> QED
  BY <1>2, <1>3, SignedAround

LEMMA FirstIs ==
  ASSUME TInv, NEW m \in Msecs, NEW t \in Members(m)
  PROVE  /\ queue[m] # <<>> /\ Head(queue[m]) \in Members(m) /\ t \in Timers
         /\ Head(queue[m]) \in Timers /\ Due(Head(queue[m])) <= Due(t)
<1> DEFINE q == queue[m]
<1>1. q \in Seq(Timers)
  BY DEF TInv, IInv, Lists
<1>2. Len(q) \in Nat /\ DOMAIN q = 1 .. Len(q) /\ \A j \in 1 .. Len(q) : q[j] \in Timers
  BY <1>1, LenProperties, ElementOfSeq
<1>3. PICK j \in 1 .. Len(q) : t = q[j]
  BY <1>2 DEF Members, ToSet
<1>4. 1 \in 1 .. Len(q) /\ q # <<>>
  BY <1>1, <1>2, <1>3
<1>5. Head(q) = q[1]
  BY <1>1, <1>4
<1>6. q[1] \in Members(m)
  BY <1>2, <1>4 DEF Members, ToSet
<1>7. Due(q[1]) <= Due(q[j])
  <2>1. CASE j = 1
    <3>1. Due(q[1]) \in Int
      BY <1>2, <1>4, DuesAre DEF TInv
    <3> QED
      BY <2>1, <3>1
  <2>2. CASE j # 1
    BY <1>2, <1>4, <2>2 DEF TInv, HeadsAreEarliest
  <2> QED
    BY <2>1, <2>2
<1> QED
  BY <1>2, <1>3, <1>4, <1>5, <1>6, <1>7

(* What the loop waits for is a deadline or its own limit, read as it is meant. *)
LEMMA LimitsRead ==
  ASSUME TInv, NEW n \in Nat, Around(n), NEW limit \in LoopLimits, NEW y \in Limits(limit)
  PROVE  \E k, d \in Int : y = Range2 * k + d /\ Begin <= d /\ Signed(y) = d - Range2 * n
<1>1. CASE y \in Heads
  <2>1. PICK m \in Msecs : queue[m] # <<>> /\ y = timeout[Head(queue[m])]
    BY <1>1 DEF Heads
  <2>2. queue[m] \in Seq(Timers)
    BY DEF TInv, IInv, Lists
  <2> DEFINE t == Head(queue[m])
  <2>3. t \in Members(m) /\ t \in Timers
    <3>1. Len(queue[m]) \in Nat /\ DOMAIN queue[m] = 1 .. Len(queue[m])
      BY <2>2, LenProperties
    <3>2. t = queue[m][1] /\ 1 \in 1 .. Len(queue[m])
      BY <2>1, <2>2, <3>1
    <3> QED
      BY <2>2, <3>1, <3>2, ElementOfSeq DEF Members, ToSet
  <2> HIDE DEF t
  <2>4. Signed(timeout[t]) = Due(t) - Range2 * n /\ \E k \in Int : timeout[t] = Range2 * k + Due(t)
    BY <2>3, DueAround DEF TInv
  <2>5. Begin <= Due(t) /\ Due(t) \in Int
    BY <2>3, DuesAre DEF TInv, TimesSound
  <2>6. y = timeout[t]
    BY <2>1 DEF t
  <2> QED
    BY <2>4, <2>5, <2>6
<1>2. CASE y \notin Heads
  <2>1. PICK x \in limit : y = Wrap(x + get_milliseconds)
    BY <1>2 DEF Limits
  <2>2. x \in LoopTimeouts /\ x \in Nat
    BY TimerAssumption DEF LoopLimits
  <2>3. clock \in Nat /\ Begin \in Nat /\ Begin <= clock /\ Range2 \in Nat
    BY DuesAre, BeginIs, PeriodIs DEF TInv, TimesSound
  <2> DEFINE now == Wrap(clock)
  <2>4. PICK j \in Int : clock = Range2 * j + now /\ now \in Int
    <3>1. clock \in Int
      BY <2>3
    <3>2. now \in 0 .. Range2 - 1 /\ \E j \in Int : clock = Range2 * j + now
      BY <3>1, WrapIs
    <3> QED
      BY <2>3, <3>2
  <2>5. PICK k \in Int : x + now = Range2 * k + y /\ y \in Int
    <3>1. x + now \in Int /\ y = Wrap(x + now)
      BY <2>1, <2>2, <2>4 DEF get_milliseconds
    <3>2. y \in 0 .. Range2 - 1 /\ \E k \in Int : x + now = Range2 * k + y
      BY <3>1, WrapIs
    <3> QED
      BY <2>3, <3>2
  <2> HIDE DEF now
  <2> DEFINE d == clock + x
  <2>6. d \in Int /\ Begin <= d /\ d <= clock + x
    BY <2>2, <2>3
  <2>7. y = Range2 * (- j - k) + d /\ - j - k \in Int
    BY <2>2, <2>3, <2>4, <2>5
  <2> HIDE DEF d
  <2>8. Range2 * n - HalfRange <= d /\ d < Range2 * n + HalfRange
    BY <2>2, <2>6, TimesAround DEF TInv
  <2>9. Signed(y) = d - Range2 * n
    BY <2>6, <2>7, <2>8, SignedAround
  <2> QED
    BY <2>6, <2>7, <2>9
<1> QED
  BY <1>1, <1>2

LEMMA EarliestIs ==
  ASSUME NEW T, T # {}, \A y \in T : Signed(y) \in -HalfRange .. HalfRange - 1
  PROVE  Earliest(T) \in T /\ \A y \in T : Signed(Earliest(T)) <= Signed(y)
<1>1. HalfRange \in Nat
  BY PeriodIs
<1> DEFINE U == {Signed(y) + HalfRange : y \in T}
<1>2. U \in SUBSET Nat /\ U # {}
  BY <1>1
<1>3. PICK u \in U : \A v \in U : u <= v
  BY <1>2, LeastExists
<1>4. PICK x \in T : u = Signed(x) + HalfRange
  OBVIOUS
<1>5. \A y \in T : Signed(x) <= Signed(y)
  <2> TAKE y \in T
  <2>1. u <= Signed(y) + HalfRange
    BY <1>3
  <2> QED
    BY <1>1, <1>4, <2>1
<1> QED
  BY <1>5 DEF Earliest

LEMMA SleepsInTime ==
  ASSUME Short, TInv, NEW n \in Nat, Around(n)
  PROVE  NeverOversleeps
<1> SUFFICES ASSUME NEW t \in Queued, NEW limit \in LoopLimits
             PROVE  \/ timeout_get(Limits(limit)) = 0
                    \/ clock + timeout_get(Limits(limit)) <= Due(t)
  BY DEF NeverOversleeps
<1>1. PICK m \in Msecs : t \in Members(m)
  BY DEF Queued
<1> DEFINE h == Head(queue[m])
           T == Limits(limit)
           e == Earliest(T)
<1>2. queue[m] # <<>> /\ h \in Members(m) /\ t \in Timers /\ h \in Timers /\ Due(h) <= Due(t)
  BY <1>1, FirstIs
<1>3. timeout[h] \in T
  BY <1>2 DEF Limits, Heads
<1> HIDE DEF h, T
<1>4. \A y \in T : \E k, d \in Int : y = Range2 * k + d /\ Begin <= d /\ Signed(y) = d - Range2 * n
  BY LimitsRead DEF T
<1>5. HalfRange \in Nat \ {0} /\ Range2 \in Nat /\ Range2 * n \in Int
  BY PeriodIs
<1>6. \A y \in T : Signed(y) \in -HalfRange .. HalfRange - 1
  <2> TAKE y \in T
  <2>1. PICK k \in Int, d \in Int : y = Range2 * k + d
    BY <1>4
  <2>2. y \in Int
    BY <1>5, <2>1
  <2> QED
    BY <2>2, SignedDiffers
<1>7. e \in T /\ Signed(e) <= Signed(timeout[h])
  BY <1>3, <1>6, EarliestIs
<1>8. PICK k \in Int, d \in Int : e = Range2 * k + d /\ Begin <= d /\ Signed(e) = d - Range2 * n
  BY <1>4, <1>7
<1> HIDE DEF e
<1>9. Signed(timeout[h]) = Due(h) - Range2 * n
  BY <1>2, DueAround DEF TInv
<1>10. Due(h) \in Int /\ Due(t) \in Int /\ clock \in Nat /\ Begin \in Nat /\ MaxTime \in Nat
       /\ m \in Nat /\ m < HalfRange /\ MaxTime - Begin < HalfRange /\ clock <= MaxTime
  <2>1. Due(h) \in Int /\ Due(t) \in Int
    BY <1>2, DuesAre DEF TInv
  <2>2. Begin \in Nat /\ MaxTime \in Nat /\ MaxTime - Begin < HalfRange
    BY BeginIs, TimerAssumption DEF TInv
  <2>3. m \in Nat /\ m < HalfRange
    BY TimerAssumption DEF Short
  <2>4. clock \in Nat /\ clock <= MaxTime
    BY <2>2 DEF TInv, TimesSound
  <2> QED
    BY <2>1, <2>2, <2>3, <2>4
<1>11. d <= Due(t)
  BY <1>2, <1>5, <1>7, <1>8, <1>9, <1>10
<1>12. Due(t) <= clock + m
  BY <1>1 DEF TInv, TimesSound
<1>13. d - clock \in -HalfRange .. HalfRange - 1
  BY <1>5, <1>8, <1>10, <1>11, <1>12
<1>14. clock + Signed(e - get_milliseconds) = d
  BY <1>8, <1>10, <1>13, DueIs DEF DueAt, get_milliseconds
<1>15. timeout_get(T) = IF Signed(e - get_milliseconds) < 0 THEN 0 ELSE Signed(e - get_milliseconds)
  BY DEF timeout_get, e
<1> QED
  BY <1>11, <1>14, <1>15 DEF T

(* When all times lie in the half periods around one overflow of the counter,     *)
(* evq_wait never sleeps past the deadline of a timer: for any timers, timeouts   *)
(* and limits of the loop, also when some deadlines are before and some after the *)
(* overflow.  The condition is what the signed comparison of the code needs.      *)
THEOREM LoopNeverOversleeps ==
  ASSUME Short, Unhurried, OneOverflow PROVE Spec => []NeverOversleeps
<1>1. TInv => NeverOversleeps
  BY SleepsInTime DEF OneOverflow
<1> QED
  BY <1>1, TInvHolds, PTL

-----------------------------------------------------------------------------
(* The alarms *)

Periods == [t \in Timers |-> Period(t)]
GoingOff == [t \in Timers |-> IF t \in Queued THEN Due(t) ELSE 0]

(* What the loop returned is gone before it waits. *)
RInv == TInv /\ (wait # "none" => ready = {})

LEMMA PeriodOf ==
  ASSUME IInv, NEW t \in Timers
  PROVE  /\ \A m \in Msecs : t \in Members(m) => t \in Queued /\ Period(t) = m
         /\ (\A m \in Msecs : t \notin Members(m)) => t \notin Queued /\ Period(t) = 0
<1>1. ASSUME NEW m \in Msecs, t \in Members(m) PROVE t \in Queued /\ Period(t) = m
  <2>1. \A l \in Msecs : t \in Members(l) => l = m
    BY <1>1, OneQueue DEF Lists
  <2>2. t \in Queued
    BY <1>1 DEF Queued
  <2> QED
    BY <1>1, <2>1, <2>2 DEF Period
<1>2. (\A m \in Msecs : t \notin Members(m)) => t \notin Queued
  BY DEF Queued
<1> QED
  BY <1>1, <1>2 DEF Period

LEMMA PeriodNext ==
  ASSUME IInv', NEW t \in Timers
  PROVE  /\ \A m \in Msecs : t \in Members(m)' => t \in Queued' /\ Period(t)' = m
         /\ (\A m \in Msecs : t \notin Members(m)') => t \notin Queued' /\ Period(t)' = 0
<1>1. ASSUME NEW m \in Msecs, t \in Members(m)' PROVE t \in Queued' /\ Period(t)' = m
  <2>1. \A l \in Msecs : t \in Members(l)' => l = m
    <3>1. \A k, l \in Lists : l # k => Members(l)' \cap Members(k)' = {}
      BY DEF IInv, InOneQueue
    <3> QED
      BY <1>1, <3>1 DEF Lists
  <2>2. t \in Queued'
    BY <1>1 DEF Queued
  <2> QED
    BY <1>1, <2>1, <2>2 DEF Period
<1>2. (\A m \in Msecs : t \notin Members(m)') => t \notin Queued'
  BY DEF Queued
<1> QED
  BY <1>1, <1>2 DEF Period

LEMMA PlacedAlarms ==
  ASSUME Short, TInv, IInv', NEW t \in Timers, NEW S \in SUBSET Msecs, PlacedIs(t, S)
  PROVE  /\ S = {} => /\ Periods' = [Periods EXCEPT ![t] = 0]
                      /\ GoingOff' = [GoingOff EXCEPT ![t] = 0]
         /\ \A m \in S : S = {m} => /\ Periods' = [Periods EXCEPT ![t] = m]
                                    /\ GoingOff' = [GoingOff EXCEPT ![t] = clock + m]
<1>1. /\ \A x \in Timers \ {t} : Due(x)' = Due(x)
      /\ \A l \in S : Due(t)' = clock + l
  BY PlacedDues DEF TInv
<1>2. \A l \in Msecs : Members(l)' = (Members(l) \ {t}) \cup (IF l \in S THEN {t} ELSE {})
  BY PlacedMembers DEF TInv
<1>3. ASSUME NEW x \in Timers \ {t}
      PROVE  (x \in Queued' <=> x \in Queued) /\ Period(x)' = Period(x)
  <2>1. \A l \in Msecs : x \in Members(l)' <=> x \in Members(l)
    BY <1>2
  <2>2. CASE \E l \in Msecs : x \in Members(l)
    <3>1. PICK l \in Msecs : x \in Members(l)
      BY <2>2
    <3> QED
      BY <2>1, <3>1, PeriodOf, PeriodNext DEF TInv
  <2>3. CASE \A l \in Msecs : x \notin Members(l)
    BY <2>1, <2>3, PeriodOf, PeriodNext DEF TInv
  <2> QED
    BY <2>2, <2>3
<1>4. Periods' = [x \in Timers |-> Period(x)']
      /\ GoingOff' = [x \in Timers |-> IF x \in Queued' THEN Due(x)' ELSE 0]
  BY DEF Periods, GoingOff
<1>5. ASSUME S = {}
      PROVE  Periods' = [Periods EXCEPT ![t] = 0] /\ GoingOff' = [GoingOff EXCEPT ![t] = 0]
  <2>1. t \notin Queued' /\ Period(t)' = 0
    BY <1>2, <1>5, PeriodNext
  <2> QED
    BY <1>1, <1>3, <1>4, <2>1 DEF Periods, GoingOff
<1>6. ASSUME NEW m \in S, S = {m}
      PROVE  /\ Periods' = [Periods EXCEPT ![t] = m]
             /\ GoingOff' = [GoingOff EXCEPT ![t] = clock + m]
  <2>1. t \in Queued' /\ Period(t)' = m
    BY <1>2, <1>6, PeriodNext
  <2> QED
    BY <1>1, <1>3, <1>4, <1>6, <2>1 DEF Periods, GoingOff
<1> QED
  BY <1>5, <1>6

LEMMA PlacedImplements ==
  ASSUME Short, TInv, IInv', NEW t \in Timers, NEW S \in SUBSET Msecs, PlacedIs(t, S),
         S = {} \/ (\E m \in Msecs : S = {m}), ready' = ready
  PROVE  Timing!Next
<1>1. clock' = clock
  BY DEF PlacedIs
<1>2. CASE S = {}
  <2>1. Timing!Clear(t)
    BY <1>1, <1>2, PlacedAlarms DEF Timing!Clear, Periods, GoingOff
  <2> QED
    BY <2>1 DEF Timing!Next
<1>3. ASSUME NEW m \in Msecs, S = {m} PROVE Timing!Next
  <2>1. Timing!Set(t, m)
    BY <1>1, <1>3, PlacedAlarms DEF Timing!Set, Periods, GoingOff
  <2> QED
    BY <2>1 DEF Timing!Next
<1> QED
  BY <1>2, <1>3

(* Queues and timeouts that stay. *)
LEMMA SameAlarms ==
  ASSUME UNCHANGED <<clock, queue, timeout>>
  PROVE  Periods' = Periods /\ GoingOff' = GoingOff
<1>1. \A m \in Msecs : Members(m)' = Members(m)
  BY DEF Members
<1>2. Queued' = Queued
  BY <1>1 DEF Queued
<1>3. \A t \in Timers : Due(t)' = Due(t) /\ Period(t)' = Period(t)
  BY <1>1, <1>2 DEF Due, get_milliseconds, Period, Members
<1> QED
  BY <1>2, <1>3 DEF Periods, GoingOff

(* A step of the alarms, or none that they see. *)
AStep == Timing!Next \/ UNCHANGED <<clock, Periods, GoingOff, ready>>

LEMMA ResetImplements ==
  ASSUME Short, TInv, IInv', NEW t \in Timers, NEW m \in Lists, t \in Members(m), NEW now,
         m # Infinite => now = get_milliseconds,
         timeout_reset(t, m, now), clock' = clock, ready' = ready
  PROVE  AStep
<1>1. CASE m = Infinite
  BY <1>1, ResetIs, SameAlarms DEF AStep
<1>2. CASE m # Infinite
  <2>1. m \in Msecs /\ PlacedIs(t, {m})
    BY <1>2, ResetIs
  <2> QED
    BY <2>1, PlacedImplements DEF AStep
<1> QED
  BY <1>1, <1>2

LEMMA StartImplements ==
  ASSUME Short, TInv, IInv', NEW t \in Timers, NEW m \in Lists, Start(t, m)
  PROVE  AStep
<1>1. timeout_add(t, m) /\ clock' = clock /\ ready' = ready
  BY DEF Start
<1>2. CASE m \in Msecs /\ PlacedIs(t, {m})
  BY <1>1, <1>2, PlacedImplements DEF AStep
<1>3. CASE PlacedIs(t, {})
  BY <1>1, <1>3, PlacedImplements DEF AStep
<1>4. CASE UNCHANGED <<queue, timeout>>
  BY <1>1, <1>4, SameAlarms DEF AStep
<1> QED
  BY <1>1, <1>2, <1>3, <1>4, AddIs

LEMMA FindsImplements ==
  ASSUME Short, TInv, IInv', NEW t \in Timers, WaitFinds(t)
  PROVE  AStep
<1>1. clock' = clock /\ ready' = ready
  BY DEF WaitFinds
<1>2. CASE UNCHANGED <<queue, timeout>>
  BY <1>1, <1>2, SameAlarms DEF AStep
<1>3. ASSUME NEW m \in Lists, t \in Members(m),
             timeout_reset(t, m, IF wait = "limited" THEN get_milliseconds ELSE Infinite)
      PROVE  AStep
  <2> DEFINE now == IF wait = "limited" THEN get_milliseconds ELSE Infinite
  <2>1. m # Infinite => now = get_milliseconds
    <3> SUFFICES ASSUME m # Infinite PROVE wait = "limited"
      OBVIOUS
    <3>1. t \in Queued
      BY <1>3 DEF Queued, Lists
    <3> QED
      BY <3>1 DEF TInv, TimesSound, WaitFinds
  <2> QED
    BY <1>1, <1>3, <2>1, ResetImplements
<1> QED
  BY <1>2, <1>3 DEF WaitFinds

LEMMA TickImplements ==
  ASSUME Short, TInv, Tick
  PROVE  Timing!Next
<1>1. clock' = clock + 1 /\ UNCHANGED <<queue, timeout, ready>>
  BY DEF Tick
<1>2. \A m \in Msecs : Members(m)' = Members(m)
  BY <1>1 DEF Members
<1>3. Queued' = Queued
  BY <1>2 DEF Queued
<1>4. \A t \in Timers : Period(t)' = Period(t)
  BY <1>1, <1>3 DEF Period, Members
<1>5. \A t \in Timers : t \in Queued => Due(t)' = Due(t)
  BY TickDues DEF Queued, TInv
<1>6. Periods' = Periods /\ GoingOff' = GoingOff
  BY <1>3, <1>4, <1>5 DEF Periods, GoingOff
<1>7. Timing!Tick
  BY <1>1, <1>6 DEF Timing!Tick, Periods, GoingOff
<1> QED
  BY <1>7 DEF Timing!Next

(* Expired are those whose time has come. *)
LEMMA ExpiredAre ==
  ASSUME TInv, NEW n \in Nat, Around(n), NEW m \in Msecs, NEW t \in Members(m)
  PROVE  t \in ToSet(Expired(queue[m])) <=> Due(t) <= clock + MinTimeout
<1> DEFINE q == queue[m]
           limit == clock + MinTimeout
<1>1. q \in Seq(Timers) /\ IsInjective(q) /\ Members(m) = ToSet(q)
  BY OneQueue DEF TInv, Lists, Members
<1>2. Len(q) \in Nat /\ DOMAIN q = 1 .. Len(q) /\ \A j \in 1 .. Len(q) : q[j] \in Timers
  BY <1>1, LenProperties, ElementOfSeq
<1>3. PICK k \in 0 .. Len(q) :
        /\ \A j \in 1 .. Len(q) : q[j] \in ToSet(Expired(q)) <=> j <= k
        /\ \A j \in 1 .. k : ~Late(q[j])
        /\ k < Len(q) => Late(q[k + 1])
  BY <1>1, ExpiredMembers
<1>4. clock \in Nat /\ Begin \in Nat /\ Begin <= clock /\ MinTimeout \in Nat /\ Range2 \in Nat
  BY DuesAre, BeginIs, PeriodIs, TimerAssumption DEF TInv, TimesSound
<1>5. Signed(get_milliseconds + MinTimeout) = limit - Range2 * n
  <2> DEFINE now == Wrap(clock)
  <2>1. PICK j \in Int : clock = Range2 * j + now /\ now \in Int
    <3>1. clock \in Int
      BY <1>4
    <3>2. now \in 0 .. Range2 - 1 /\ \E j \in Int : clock = Range2 * j + now
      BY <3>1, WrapIs
    <3> HIDE DEF now
    <3>3. now \in Int
      BY <1>4, <3>2
    <3> QED
      BY <3>2, <3>3
  <2> HIDE DEF now
  <2>2. now + MinTimeout = Range2 * (- j) + limit /\ - j \in Int
    BY <1>4, <2>1
  <2>3. limit \in Int /\ Begin <= limit /\ limit <= clock + MinTimeout
    BY <1>4
  <2> HIDE DEF limit
  <2>4. Range2 * n - HalfRange <= limit /\ limit < Range2 * n + HalfRange
    BY <2>3, TimesAround DEF TInv
  <2> QED
    BY <2>2, <2>3, <2>4, SignedAround DEF get_milliseconds, now
<1>6. \A j \in 1 .. Len(q) : q[j] \in Members(m) /\ Due(q[j]) \in Int
  BY <1>1, <1>2, DuesAre DEF ToSet, TInv
<1>7. ASSUME NEW j \in 1 .. Len(q) PROVE Late(q[j]) <=> limit < Due(q[j])
  <2>1. Signed(timeout[q[j]]) = Due(q[j]) - Range2 * n
    BY <1>2, <1>6, DueAround DEF TInv
  <2>2. limit \in Int /\ Range2 * n \in Int
    BY <1>4
  <2> QED
    BY <1>5, <1>6, <2>1, <2>2 DEF Late
<1>8. PICK j \in 1 .. Len(q) : t = q[j]
  BY <1>1, <1>2 DEF ToSet
<1>9. limit \in Int
  BY <1>4
<1> HIDE DEF limit
<1>10. CASE j <= k
  <2>1. j \in 1 .. k
    BY <1>2, <1>10
  <2>2. ~(limit < Due(t)) /\ Due(t) \in Int
    BY <1>3, <1>6, <1>7, <1>8, <2>1
  <2> QED
    BY <1>3, <1>8, <1>9, <1>10, <2>2 DEF limit
<1>11. CASE ~(j <= k)
  <2>1. k + 1 \in 1 .. Len(q) /\ k < Len(q) /\ (k + 1 = j \/ k + 1 < j)
    BY <1>2, <1>11
  <2>2. limit < Due(q[k + 1])
    BY <1>3, <1>7, <2>1
  <2>3. Due(q[k + 1]) <= Due(t)
    <3>1. CASE k + 1 = j
      BY <1>6, <1>8, <3>1
    <3>2. CASE k + 1 < j
      BY <1>8, <2>1, <3>2 DEF TInv, HeadsAreEarliest
    <3> QED
      BY <2>1, <3>1, <3>2
  <2>4. limit < Due(t) /\ Due(t) \in Int
    BY <1>6, <1>8, <1>9, <2>1, <2>2, <2>3
  <2>5. ~(Due(t) <= limit)
    BY <1>9, <2>4
  <2> QED
    BY <1>3, <1>8, <1>11, <2>5 DEF limit
<1> QED
  BY <1>10, <1>11

LEMMA TimesOutImplements ==
  ASSUME Short, RInv, IInv', NEW n \in Nat, Around(n), WaitTimesOut
  PROVE  Timing!Next
<1>1. /\ clock' = clock /\ ready = {}
      /\ ready' = UNION {ToSet(Expired(queue[m])) : m \in Msecs}
      /\ \A m \in Msecs : queue'[m] = Recycled(queue[m])
  BY InfiniteIsNone DEF WaitTimesOut, RInv
<1>2. \A m \in Msecs : Members(m)' = Members(m) /\ Members(m) \subseteq Timers
  <2> TAKE m \in Msecs
  <2>1. queue[m] \in Seq(Timers) /\ IsInjective(queue[m])
    BY OneQueue DEF RInv, TInv, Lists
  <2>2. ToSet(Recycled(queue[m])) = ToSet(queue[m])
    BY <2>1, RecycledIsTurned
  <2>3. Members(m)' = ToSet(queue'[m]) /\ Members(m) = ToSet(queue[m])
    BY DEF Members
  <2>4. Members(m) \subseteq Timers
    BY FirstIs DEF RInv
  <2> QED
    BY <1>1, <2>2, <2>3, <2>4
<1>3. Queued' = Queued
  BY <1>2 DEF Queued
<1>4. \A t \in Timers : Period(t)' = Period(t)
  <2> TAKE t \in Timers
  <2>1. CASE \E m \in Msecs : t \in Members(m)
    <3>1. PICK m \in Msecs : t \in Members(m)
      BY <2>1
    <3> QED
      BY <1>2, <3>1, PeriodOf, PeriodNext DEF RInv, TInv
  <2>2. CASE \A m \in Msecs : t \notin Members(m)
    BY <1>2, <2>2, PeriodOf, PeriodNext DEF RInv, TInv
  <2> QED
    BY <2>1, <2>2
<1>5. \A m \in Msecs : \A t \in Members(m) :
        /\ t \in ToSet(Expired(queue[m])) <=> Due(t) <= clock + MinTimeout
        /\ Due(t)' = IF t \in ToSet(Expired(queue[m])) THEN clock + m ELSE Due(t)
        /\ Period(t) = m /\ t \in Queued /\ t \in Timers /\ m # 0
  <2> TAKE m \in Msecs
  <2> TAKE t \in Members(m)
  <2>1. t \in ToSet(Expired(queue[m])) <=> Due(t) <= clock + MinTimeout
    BY ExpiredAre DEF RInv
  <2>2. Due(t)' = IF t \in ToSet(Expired(queue[m])) THEN clock + m ELSE Due(t)
    BY TimesOutIs DEF RInv
  <2>3. t \in Timers /\ m # 0
    BY <1>2, TimerAssumption
  <2> QED
    BY <2>1, <2>2, <2>3, PeriodOf DEF RInv, TInv
<1>6. \A m \in Msecs : ToSet(Expired(queue[m])) \subseteq Members(m)
  <2> TAKE m \in Msecs
  <2> DEFINE q == queue[m]
  <2>1. q \in Seq(Timers)
    BY DEF RInv, TInv, IInv, Lists
  <2>2. PICK k \in 0 .. Len(q) : Expired(q) = SubSeq(q, 1, k)
    BY <2>1, ExpiredIs
  <2>3. Len(q) \in Nat /\ DOMAIN q = 1 .. Len(q) /\ \A j \in 1 .. Len(q) : q[j] \in Timers
    BY <2>1, LenProperties, ElementOfSeq
  <2>4. /\ SubSeq(q, 1, k) \in Seq(Timers) /\ Len(SubSeq(q, 1, k)) = k
        /\ \A j \in 1 .. k : SubSeq(q, 1, k)[j] = q[j]
    BY <2>3, SubSeqProperties
  <2>5. DOMAIN SubSeq(q, 1, k) = 1 .. k
    BY <2>4, LenProperties
  <2> QED
    BY <2>2, <2>3, <2>4, <2>5 DEF ToSet, Members
<1> DEFINE ripe == {t \in Timers : Periods[t] # 0 /\ GoingOff[t] <= clock + MinTimeout}
<1>7. \A t \in Timers : t \in ripe <=> \E m \in Msecs : t \in ToSet(Expired(queue[m]))
  <2> TAKE t \in Timers
  <2>1. CASE \E m \in Msecs : t \in Members(m)
    <3>1. PICK m \in Msecs : t \in Members(m)
      BY <2>1
    <3>2. Periods[t] # 0 /\ GoingOff[t] = Due(t)
      BY <1>5, <3>1 DEF Periods, GoingOff
    <3>3. \A l \in Msecs : t \in ToSet(Expired(queue[l])) => l = m
      BY <1>5, <1>6, <3>1
    <3> QED
      BY <1>5, <3>1, <3>2, <3>3
  <2>2. CASE \A m \in Msecs : t \notin Members(m)
    <3>1. Periods[t] = 0
      BY <2>2, PeriodOf DEF RInv, TInv, Periods
    <3> QED
      BY <1>6, <2>2, <3>1
  <2> QED
    BY <2>1, <2>2
<1>8. ready' = ripe
  <2>1. \A t \in ready' : t \in Timers /\ \E m \in Msecs : t \in ToSet(Expired(queue[m]))
    BY <1>1, <1>2, <1>6
  <2>2. \A t \in Timers : t \in ready' <=> \E m \in Msecs : t \in ToSet(Expired(queue[m]))
    BY <1>1
  <2>3. \A t \in ripe : t \in Timers
    OBVIOUS
  <2> HIDE DEF ripe
  <2> QED
    BY <1>7, <2>1, <2>2, <2>3
<1> HIDE DEF ripe
<1>9. Periods' = Periods
  BY <1>4 DEF Periods
<1>10. GoingOff' = [t \in Timers |-> IF t \in ripe THEN clock + Periods[t] ELSE GoingOff[t]]
  <2>1. GoingOff' = [t \in Timers |-> IF t \in Queued' THEN Due(t)' ELSE 0]
    BY DEF GoingOff
  <2>2. ASSUME NEW t \in Timers
        PROVE  (IF t \in Queued THEN Due(t)' ELSE 0)
                = IF t \in ripe THEN clock + Periods[t] ELSE GoingOff[t]
    <3>1. CASE t \in Queued
      <4>1. PICK m \in Msecs : t \in Members(m)
        BY <3>1 DEF Queued
      <4>2. Periods[t] = m /\ GoingOff[t] = Due(t)
        BY <1>5, <3>1, <4>1 DEF Periods, GoingOff
      <4>3. \A l \in Msecs : t \in ToSet(Expired(queue[l])) => l = m
        BY <1>5, <1>6, <4>1
      <4>4. t \in ripe <=> t \in ToSet(Expired(queue[m]))
        BY <1>7, <4>3
      <4> QED
        BY <1>5, <3>1, <4>1, <4>2, <4>4
    <3>2. CASE t \notin Queued
      <4>1. t \notin ripe
        BY <1>6, <1>7, <3>2 DEF Queued
      <4> QED
        BY <3>2, <4>1 DEF GoingOff
    <3> QED
      BY <3>1, <3>2
  <2> QED
    BY <1>3, <2>1, <2>2
<1>11. Timing!Ripe = ripe
  BY DEF Timing!Ripe, ripe, Periods, GoingOff
<1>12. Timing!GoOff
  BY <1>1, <1>8, <1>9, <1>10, <1>11 DEF Timing!GoOff, Periods, GoingOff
<1> QED
  BY <1>12 DEF Timing!Next

LEMMA ReadyStep == Short /\ Unhurried /\ RInv /\ [Next]_vars => RInv'
<1> SUFFICES ASSUME Short, Unhurried, RInv, [Next]_vars PROVE RInv'
  OBVIOUS
<1>1. TInv'
  BY TimesStep DEF RInv
<1>2. wait' # "none" => ready' = {}
  BY DEF RInv, Next, vars, Tick, WaitTimesOut, WaitBegins, Stop, Trigger, WaitFinds, Start
<1> QED
  BY <1>1, <1>2 DEF RInv

LEMMA AlarmsStep ==
  ASSUME Short, NEW n \in Nat, Around(n), RInv, RInv', [Next]_vars
  PROVE  [Timing!Next]_(Timing!vars)
<1>1. TInv /\ IInv'
  BY DEF RInv, TInv
<1>2. AStep => [Timing!Next]_(Timing!vars)
  BY DEF AStep, Timing!vars, Periods, GoingOff
<1>3. CASE Tick
  BY <1>1, <1>3, TickImplements
<1>4. CASE WaitTimesOut
  BY <1>1, <1>4, TimesOutImplements
<1>5. ASSUME NEW limit \in LoopLimits, WaitBegins(limit) PROVE Timing!Next
  <2>1. UNCHANGED <<clock, queue, timeout>> /\ ready' = {}
    BY <1>5 DEF WaitBegins
  <2>2. Timing!Wait
    BY <2>1, SameAlarms DEF Timing!Wait, Periods, GoingOff
  <2> QED
    BY <2>2 DEF Timing!Next
<1>6. ASSUME NEW t \in Timers, Stop(t) PROVE Timing!Next
  <2>1. PlacedIs(t, {}) /\ ready' = ready
    BY <1>1, <1>6, StopIs DEF Stop
  <2> QED
    BY <1>1, <2>1, PlacedImplements
<1>7. ASSUME NEW t \in Timers, Trigger(t) PROVE AStep
  BY <1>1, <1>7, ResetImplements DEF Trigger
<1>8. ASSUME NEW t \in Timers, WaitFinds(t) PROVE AStep
  BY <1>1, <1>8, FindsImplements
<1>9. ASSUME NEW t \in Timers, NEW m \in Lists, Start(t, m) PROVE AStep
  BY <1>1, <1>9, StartImplements
<1>10. CASE UNCHANGED vars
  <2>1. UNCHANGED <<clock, queue, timeout>> /\ ready' = ready
    BY <1>10 DEF vars
  <2>2. Periods' = Periods /\ GoingOff' = GoingOff
    BY <2>1, SameAlarms
  <2>3. clock' = clock
    BY <2>1
  <2>4. AStep
    BY <2>1, <2>2, <2>3 DEF AStep
  <2> QED
    BY <1>2, <2>4
<1> QED
  BY <1>2, <1>3, <1>4, <1>5, <1>6, <1>7, <1>8, <1>9, <1>10 DEF Next

(* The lists of timeouts implement alarms, each of which goes off at its time, with *)
(* all others that are due, and not before: for any timers, timeouts and limits, as *)
(* long as all times lie around one overflow of the counter.                        *)
THEOREM TimersGoOff ==
  ASSUME Short, Unhurried, OneOverflow PROVE Spec => ImplementsAlarms
<1>1. PICK n \in Nat : Around(n)
  BY DEF OneOverflow
<1>2. Init => RInv /\ Timing!Init
  <2> SUFFICES ASSUME Init PROVE RInv /\ Timing!Init
    OBVIOUS
  <2>1. RInv
    BY TimesStart DEF RInv, Init
  <2>2. \A m \in Msecs : Members(m) = {}
    BY EmptyAsSet DEF Init, Members, Lists
  <2>3. \A t \in Timers : t \notin Queued /\ Period(t) = 0
    BY <2>2 DEF Queued, Period
  <2>4. clock \in Nat /\ ready = {}
    BY TimerAssumption DEF Init
  <2> QED
    BY <2>1, <2>3, <2>4 DEF Timing!Init
<1>3. RInv /\ [Next]_vars => RInv'
  BY ReadyStep
<1>4. RInv /\ RInv' /\ [Next]_vars => [Timing!Next]_(Timing!vars)
  BY <1>1, AlarmsStep
<1> QED
  BY <1>2, <1>3, <1>4, PTL DEF Spec, ImplementsAlarms, Timing!Spec
=============================================================================
