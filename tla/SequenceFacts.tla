--------------------------- MODULE SequenceFacts ----------------------------
(* What the operations on sequences do to the values in them, and the greatest *)
(* member of a finite set: facts that the proofs about queues and lists share.  *)
EXTENDS Integers, Sequences, FiniteSets, SequencesExt,
        SequenceTheorems, FiniteSetTheorems, WellFoundedInduction, TLAPS

LEMMA Appended ==
  ASSUME NEW S, NEW s \in Seq(S), NEW e \in S
  PROVE  /\ Append(s, e) \in Seq(S) /\ Append(s, e) # <<>>
         /\ ToSet(Append(s, e)) = ToSet(s) \cup {e}
         /\ IsInjective(s) /\ e \notin ToSet(s) => IsInjective(Append(s, e))
<1> DEFINE t == Append(s, e)
<1>1. /\ t \in Seq(S) /\ t # <<>> /\ Len(t) = Len(s) + 1 /\ t[Len(s) + 1] = e
      /\ \A i \in 1 .. Len(s) : t[i] = s[i]
  BY AppendProperties
<1>2. DOMAIN t = 1 .. Len(s) + 1 /\ DOMAIN s = 1 .. Len(s) /\ Len(s) \in Nat
  BY <1>1, LenProperties
<1>3. ToSet(t) = ToSet(s) \cup {e}
  BY <1>1, <1>2 DEF ToSet
<1>4. IsInjective(s) /\ e \notin ToSet(s) => IsInjective(t)
  BY <1>1, <1>2 DEF ToSet, IsInjective
<1> QED
  BY <1>1, <1>3, <1>4

LEMMA Fronted ==
  ASSUME NEW S, NEW s \in Seq(S), s # <<>>
  PROVE  /\ Front(s) \in Seq(S) /\ Last(s) \in S
         /\ Len(s) \in Nat \ {0} /\ Len(Front(s)) = Len(s) - 1
         /\ DOMAIN s = 1 .. Len(s) /\ DOMAIN Front(s) = 1 .. Len(s) - 1
         /\ \A i \in 1 .. Len(s) - 1 : Front(s)[i] = s[i]
<1>1. Len(s) \in Nat \ {0} /\ DOMAIN s = 1 .. Len(s)
  BY EmptySeq, LenProperties
<1>2. \A i \in 1 .. Len(s) : s[i] \in S
  BY ElementOfSeq
<1>3. /\ Front(s) \in Seq(S) /\ Len(Front(s)) = Len(s) - 1
      /\ \A i \in 1 .. Len(s) - 1 : Front(s)[i] = s[i]
  BY <1>1, <1>2, SubSeqProperties DEF Front
<1>4. DOMAIN Front(s) = 1 .. Len(s) - 1
  BY <1>3, LenProperties
<1> QED
  BY <1>1, <1>2, <1>3, <1>4 DEF Last

LEMMA FrontedAsSet ==
  ASSUME NEW S, NEW s \in Seq(S), s # <<>>
  PROVE  /\ Last(s) \in ToSet(s) /\ ToSet(Front(s)) \subseteq ToSet(s)
         /\ IsInjective(s) => IsInjective(Front(s)) /\ Last(s) \notin ToSet(Front(s))
<1>1. /\ Len(s) \in Nat \ {0}
      /\ DOMAIN s = 1 .. Len(s) /\ DOMAIN Front(s) = 1 .. Len(s) - 1
      /\ \A i \in 1 .. Len(s) - 1 : Front(s)[i] = s[i]
  BY Fronted
<1>2. Last(s) \in ToSet(s)
  BY <1>1 DEF Last, ToSet
<1>3. ToSet(Front(s)) \subseteq ToSet(s)
  BY <1>1 DEF ToSet
<1>4. IsInjective(s) => IsInjective(Front(s))
  BY <1>1 DEF IsInjective
<1>5. IsInjective(s) => Last(s) \notin ToSet(Front(s))
  BY <1>1 DEF IsInjective, Last, ToSet
<1> QED
  BY <1>2, <1>3, <1>4, <1>5

LEMMA Tailed ==
  ASSUME NEW S, NEW s \in Seq(S), s # <<>>
  PROVE  /\ Head(s) \in S /\ Head(s) \in ToSet(s) /\ Tail(s) \in Seq(S)
         /\ ToSet(s) = ToSet(Tail(s)) \cup {Head(s)}
         /\ IsInjective(s) => IsInjective(Tail(s)) /\ Head(s) \notin ToSet(Tail(s))
         /\ IsInjective(s) /\ (\A x, y \in ToSet(s) : x = y) => Tail(s) = <<>>
<1>1. /\ Tail(s) \in Seq(S) /\ Len(Tail(s)) = Len(s) - 1 /\ Head(s) \in S
      /\ \A i \in 1 .. Len(s) - 1 : Tail(s)[i] = s[i + 1]
  BY HeadTailProperties
<1>2. /\ DOMAIN s = 1 .. Len(s) /\ Len(s) \in Nat \ {0}
      /\ DOMAIN Tail(s) = 1 .. Len(s) - 1
  BY <1>1, EmptySeq, LenProperties
<1>3. Head(s) = s[1]
  BY <1>2
<1>4. ToSet(s) = ToSet(Tail(s)) \cup {Head(s)}
  <2>1. \A i \in 1 .. Len(s) : s[i] \in ToSet(Tail(s)) \cup {Head(s)}
    <3> TAKE i \in 1 .. Len(s)
    <3>1. CASE i = 1
      BY <3>1, <1>3
    <3>2. CASE i # 1
      <4>1. i - 1 \in 1 .. Len(s) - 1 /\ Tail(s)[i - 1] = s[i]
        BY <3>2, <1>1, <1>2
      <4> QED
        BY <4>1, <1>2 DEF ToSet
    <3> QED
      BY <3>1, <3>2
  <2>2. \A i \in 1 .. Len(s) - 1 : Tail(s)[i] \in ToSet(s)
    BY <1>1, <1>2 DEF ToSet
  <2>3. Head(s) \in ToSet(s)
    BY <1>2, <1>3 DEF ToSet
  <2> QED
    BY <2>1, <2>2, <2>3, <1>2 DEF ToSet
<1>5. IsInjective(s) => IsInjective(Tail(s)) /\ Head(s) \notin ToSet(Tail(s))
  BY <1>1, <1>2, <1>3 DEF ToSet, IsInjective
<1>6. ASSUME IsInjective(s), \A x, y \in ToSet(s) : x = y, Tail(s) # <<>>
      PROVE  FALSE
  <2>1. Len(Tail(s)) # 0
    BY <1>1, <1>6, EmptySeq
  <2>2. 1 \in DOMAIN s /\ 2 \in DOMAIN s
    BY <2>1, <1>1, <1>2
  <2>3. s[1] = s[2]
    BY <2>2, <1>6 DEF ToSet
  <2> QED
    BY <2>2, <2>3, <1>6 DEF IsInjective
<1> QED
  BY <1>1, <1>3, <1>4, <1>5, <1>6

LEMMA EmptyAsSet == ToSet(<<>>) = {} /\ IsInjective(<<>>)
BY DEF ToSet, IsInjective

LEMMA Prepended ==
  ASSUME NEW S, NEW s \in Seq(S), NEW e \in S, IsInjective(s), e \notin ToSet(s)
  PROVE  /\ <<e>> \o s \in Seq(S) /\ IsInjective(<<e>> \o s)
         /\ ToSet(<<e>> \o s) = ToSet(s) \cup {e}
<1> DEFINE t == <<e>> \o s
<1>1. <<e>> \in Seq(S) /\ Len(<<e>>) = 1 /\ <<e>>[1] = e
  OBVIOUS
<1>2. /\ t \in Seq(S) /\ Len(t) = 1 + Len(s)
      /\ \A k \in 1 .. 1 + Len(s) : t[k] = IF k <= 1 THEN <<e>>[k] ELSE s[k - 1]
  BY <1>1, ConcatProperties
<1>3. DOMAIN t = 1 .. 1 + Len(s) /\ DOMAIN s = 1 .. Len(s) /\ Len(s) \in Nat
  BY <1>2, LenProperties
<1> HIDE DEF t
<1>4. t[1] = e /\ \A k \in 1 .. Len(s) : t[k + 1] = s[k]
  BY <1>1, <1>2, <1>3
<1>5. ToSet(t) = ToSet(s) \cup {e}
  <2>1. \A k \in DOMAIN t : t[k] \in ToSet(s) \cup {e}
    <3> TAKE k \in DOMAIN t
    <3>1. CASE k = 1
      BY <3>1, <1>4
    <3>2. CASE k # 1
      <4>1. k - 1 \in 1 .. Len(s) /\ t[k] = s[k - 1]
        BY <3>2, <1>2, <1>3
      <4> QED
        BY <4>1, <1>3 DEF ToSet
    <3> QED
      BY <3>1, <3>2
  <2>2. \A k \in DOMAIN s : s[k] \in ToSet(t)
    <3> TAKE k \in DOMAIN s
    <3>1. k + 1 \in DOMAIN t /\ t[k + 1] = s[k]
      BY <1>3, <1>4
    <3> QED
      BY <3>1 DEF ToSet
  <2>3. e \in ToSet(t)
    BY <1>3, <1>4 DEF ToSet
  <2> QED
    BY <2>1, <2>2, <2>3 DEF ToSet
<1>6. IsInjective(t)
  <2> SUFFICES ASSUME NEW j \in DOMAIN t, NEW k \in DOMAIN t, t[j] = t[k] PROVE j = k
    BY DEF IsInjective
  <2>1. \A l \in DOMAIN t : l # 1 => l - 1 \in DOMAIN s /\ t[l] = s[l - 1] /\ t[l] # e
    <3> TAKE l \in DOMAIN t
    <3> HAVE l # 1
    <3>1. l - 1 \in DOMAIN s /\ t[l] = s[l - 1]
      BY <1>2, <1>3
    <3> QED
      BY <3>1 DEF ToSet
  <2>2. j \in Int /\ k \in Int
    BY <1>3
  <2>3. CASE j = 1 \/ k = 1
    BY <2>1, <2>3, <1>4
  <2>4. CASE j # 1 /\ k # 1
    <3>1. j - 1 = k - 1
      BY <2>1, <2>4 DEF IsInjective
    <3> QED
      BY <3>1, <2>2
  <2> QED
    BY <2>3, <2>4
<1> QED
  BY <1>2, <1>5, <1>6 DEF t

LEMMA RemovedAtIs ==
  ASSUME NEW S, NEW s \in Seq(S), NEW k \in 1 .. Len(s)
  PROVE  /\ RemoveAt(s, k) \in Seq(S) /\ Len(RemoveAt(s, k)) = Len(s) - 1
         /\ \A j \in 1 .. Len(s) - 1 : RemoveAt(s, k)[j] = IF j < k THEN s[j] ELSE s[j + 1]
<1> DEFINE a == SubSeq(s, 1, k - 1)
           b == SubSeq(s, k + 1, Len(s))
           t == RemoveAt(s, k)
           n == Len(s)
<1>1. n \in Nat /\ DOMAIN s = 1 .. n /\ \A j \in 1 .. n : s[j] \in S
  BY LenProperties, ElementOfSeq
<1>2. /\ a \in Seq(S) /\ Len(a) = k - 1
      /\ \A j \in 1 .. k - 1 : a[j] = s[j]
  <2>1. \A j \in 1 .. k - 1 : s[j] \in S
    BY <1>1
  <2> QED
    BY <2>1, <1>1, SubSeqProperties
<1>3. /\ b \in Seq(S) /\ Len(b) = n - k
      /\ \A j \in 1 .. n - k : b[j] = s[k + j]
  <2>1. \A j \in k + 1 .. n : s[j] \in S
    BY <1>1
  <2>2. /\ b \in Seq(S) /\ Len(b) = IF k + 1 <= n THEN n - (k + 1) + 1 ELSE 0
        /\ \A j \in 1 .. n - (k + 1) + 1 : b[j] = s[k + 1 + j - 1]
    BY <2>1, <1>1, SubSeqProperties
  <2>3. n \in Nat /\ k \in 1 .. n
    BY <1>1
  <2> HIDE DEF b, n
  <2>4. Len(b) = n - k
    BY <2>2, <2>3
  <2>5. ASSUME NEW j \in 1 .. n - k PROVE b[j] = s[k + j]
    <3>1. j \in 1 .. n - (k + 1) + 1 /\ k + 1 + j - 1 = k + j
      BY <2>3
    <3> QED
      BY <3>1, <2>2
  <2> QED
    BY <2>2, <2>4, <2>5
<1>4. /\ t \in Seq(S) /\ Len(t) = n - 1
      /\ \A j \in 1 .. n - 1 : t[j] = IF j <= k - 1 THEN a[j] ELSE b[j - (k - 1)]
  <2>1. t = a \o b
    BY DEF RemoveAt
  <2>2. /\ a \in Seq(S) /\ Len(a) = k - 1 /\ b \in Seq(S) /\ Len(b) = n - k
        /\ n \in Nat /\ k \in 1 .. n
    BY <1>1, <1>2, <1>3
  <2> HIDE DEF t, a, b, n
  <2>3. /\ t \in Seq(S) /\ Len(t) = Len(a) + Len(b)
        /\ \A j \in 1 .. Len(a) + Len(b) : t[j] = IF j <= Len(a) THEN a[j] ELSE b[j - Len(a)]
    BY <2>1, <2>2, ConcatProperties
  <2> QED
    BY <2>2, <2>3
<1>5. DOMAIN t = 1 .. n - 1
  BY <1>4, LenProperties
<1> HIDE DEF a, b, t, n
<1>6. \A j \in 1 .. n - 1 : t[j] = IF j < k THEN s[j] ELSE s[j + 1]
  <2> TAKE j \in 1 .. n - 1
  <2>1. CASE j < k
    BY <2>1, <1>1, <1>2, <1>4
  <2>2. CASE ~ (j < k)
    <3>1. j - (k - 1) \in 1 .. n - k /\ k + (j - (k - 1)) = j + 1
      BY <2>2, <1>1 DEF n
    <3> QED
      BY <3>1, <2>2, <1>3, <1>4
  <2> QED
    BY <2>1, <2>2
<1> QED
  BY <1>4, <1>6 DEF n, t

LEMMA RemovedAt ==
  ASSUME NEW S, NEW s \in Seq(S), NEW k \in 1 .. Len(s), IsInjective(s)
  PROVE  /\ RemoveAt(s, k) \in Seq(S) /\ IsInjective(RemoveAt(s, k))
         /\ ToSet(RemoveAt(s, k)) = ToSet(s) \ {s[k]}
<1> DEFINE t == RemoveAt(s, k)
           n == Len(s)
<1>1. n \in Nat /\ DOMAIN s = 1 .. n /\ \A j \in 1 .. n : s[j] \in S
  BY LenProperties, ElementOfSeq
<1>2. t \in Seq(S) /\ Len(t) = n - 1
  BY RemovedAtIs
<1>3. DOMAIN t = 1 .. n - 1
  BY <1>2, LenProperties
<1>4. \A j \in 1 .. n - 1 : t[j] = IF j < k THEN s[j] ELSE s[j + 1]
  BY RemovedAtIs
<1> HIDE DEF t, n
<1>5. k \in 1 .. n
  BY DEF n
<1>6. \A j \in 1 .. n - 1 : t[j] \in ToSet(s) \ {s[k]}
  <2> TAKE j \in 1 .. n - 1
  <2>1. PICK l \in 1 .. n : t[j] = s[l] /\ l # k
    BY <1>1, <1>4, <1>5
  <2>2. s[l] \in ToSet(s) /\ s[l] # s[k]
    BY <1>1, <1>5, <2>1 DEF ToSet, IsInjective
  <2> QED
    BY <2>1, <2>2
<1>7. \A j \in 1 .. n : j # k => s[j] \in ToSet(t)
  <2> TAKE j \in 1 .. n
  <2>1. CASE j < k
    BY <2>1, <1>1, <1>3, <1>4, <1>5 DEF ToSet
  <2>2. CASE j > k
    <3>1. j - 1 \in 1 .. n - 1 /\ t[j - 1] = s[j]
      BY <2>2, <1>1, <1>4, <1>5
    <3> QED
      BY <3>1, <1>3 DEF ToSet
  <2> QED
    BY <2>1, <2>2, <1>5
<1>8. ToSet(t) = ToSet(s) \ {s[k]}
  <2>1. ToSet(t) \subseteq ToSet(s) \ {s[k]}
    BY <1>3, <1>6 DEF ToSet
  <2>2. ASSUME NEW x \in ToSet(s), x # s[k] PROVE x \in ToSet(t)
    <3>1. PICK j \in 1 .. n : x = s[j]
      BY <1>1 DEF ToSet
    <3> QED
      BY <3>1, <2>2, <1>7
  <2> QED
    BY <2>1, <2>2
<1>9. IsInjective(t)
  <2> DEFINE f(j) == IF j < k THEN j ELSE j + 1
  <2>1. \A j \in 1 .. n - 1 : f(j) \in 1 .. n /\ t[j] = s[f(j)]
    BY <1>1, <1>4, <1>5
  <2>2. \A j, l \in 1 .. n - 1 : f(j) = f(l) => j = l
    BY <1>1, <1>5
  <2> HIDE DEF f
  <2> QED
    BY <1>1, <1>3, <2>1, <2>2 DEF IsInjective
<1> QED
  BY <1>2, <1>8, <1>9 DEF t

LEMMA CardinalityOfSeq ==
  ASSUME NEW S, NEW s \in Seq(S), IsInjective(s)
  PROVE  IsFiniteSet(ToSet(s)) /\ Cardinality(ToSet(s)) = Len(s)
<1>1. Len(s) \in Nat /\ DOMAIN s = 1 .. Len(s) /\ s \in [1 .. Len(s) -> S]
  BY LenProperties
<1>2. IsFiniteSet(1 .. Len(s)) /\ Cardinality(1 .. Len(s)) = Len(s)
  BY <1>1, FS_Interval
<1>3. s \in [1 .. Len(s) -> ToSet(s)]
  BY <1>1 DEF ToSet
<1>4. s \in Bijection(1 .. Len(s), ToSet(s))
  BY <1>1, <1>3 DEF Bijection, Injection, Surjection, IsInjective, ToSet
<1> QED
  BY <1>2, <1>4, FS_Bijection DEF ExistsBijection

LEMMA MaxExists ==
  ASSUME NEW S \in SUBSET Int, IsFiniteSet(S), S # {}
  PROVE  \E m \in S : \A x \in S : x <= m
<1> DEFINE Without == {T \in SUBSET S : T # {} /\ ~ \E m \in T : \A x \in T : x <= m}
<1> SUFFICES ASSUME Without # {} PROVE FALSE
  <2>1. S \in Without => Without # {}
    OBVIOUS
  <2> QED
    BY <2>1
<1>1. FiniteSubsetsOf(S) = SUBSET S /\ IsWellFoundedOn(StrictSubsetOrdering(S), SUBSET S)
  BY FS_FiniteSubsetsOfFinite, FS_StrictSubsetOrderingWellFounded
<1>2. PICK T \in Without : \A U \in Without : <<U, T>> \notin StrictSubsetOrdering(S)
  <2>1. Without \subseteq SUBSET S
    OBVIOUS
  <2> DEFINE R == StrictSubsetOrdering(S)
             P == SUBSET S
  <2>2. IsWellFoundedOn(R, P) /\ Without \subseteq P /\ Without # {}
    BY <1>1, <2>1
  <2> HIDE DEF Without, R, P
  <2>3. \E T \in Without : \A U \in Without : ~ (<<U, T>> \in R)
    BY <2>2, WFMin, Zenon
  <2> QED
    BY <2>3 DEF R
<1>3. PICK x \in T : TRUE
  OBVIOUS
<1>4. T \ {x} \notin Without
  BY <1>2, <1>3 DEF StrictSubsetOrdering
<1>5. CASE T \ {x} = {}
  BY <1>3, <1>5
<1>6. CASE T \ {x} # {}
  <2>1. PICK m \in T \ {x} : \A y \in T \ {x} : y <= m
    BY <1>4, <1>6
  <2>2. m \in Int /\ x \in Int /\ \A y \in T : y \in Int
    BY <1>3
  <2>3. CASE x <= m
    BY <2>1, <2>2, <2>3
  <2>4. CASE ~ (x <= m)
    <3>1. \A y \in T : y <= x
      BY <2>1, <2>2, <2>4
    <3> QED
      BY <3>1, <1>3
  <2> QED
    BY <2>3, <2>4
<1> QED
  BY <1>5, <1>6

LEMMA LeastExists ==
  ASSUME NEW S \in SUBSET Nat, S # {}
  PROVE  \E m \in S : \A x \in S : m <= x
<1> DEFINE R == OpToRel(<, Nat)
<1>1. IsWellFoundedOn(R, Nat)
  BY NatLessThanWellFounded
<1> HIDE DEF R
<1>2. PICK m \in S : \A x \in S : ~ (<<x, m>> \in R)
  BY <1>1, WFMin, Zenon
<1>3. \A x \in S : ~ (x < m)
  BY <1>2 DEF R, OpToRel
<1> QED
  BY <1>3

LEMMA RotatedIs ==
  ASSUME NEW S, NEW s \in Seq(S), NEW k \in 0 .. Len(s)
  PROVE  LET t == SubSeq(s, k + 1, Len(s)) \o SubSeq(s, 1, k)
         IN  /\ t \in Seq(S) /\ Len(t) = Len(s)
             /\ \A j \in 1 .. Len(s) : t[j] = IF j <= Len(s) - k THEN s[k + j] ELSE s[j - (Len(s) - k)]
<1> DEFINE a == SubSeq(s, k + 1, Len(s))
           b == SubSeq(s, 1, k)
           t == a \o b
           n == Len(s)
<1>1. n \in Nat /\ DOMAIN s = 1 .. n /\ \A j \in 1 .. n : s[j] \in S
  BY LenProperties, ElementOfSeq
<1>2. /\ b \in Seq(S) /\ Len(b) = k
      /\ \A j \in 1 .. k : b[j] = s[j]
  <2>1. \A j \in 1 .. k : s[j] \in S
    BY <1>1
  <2> QED
    BY <2>1, <1>1, SubSeqProperties
<1>3. /\ a \in Seq(S) /\ Len(a) = n - k
      /\ \A j \in 1 .. n - k : a[j] = s[k + j]
  <2> DEFINE m == k + 1
  <2>1. m \in Int /\ n \in Int /\ a = SubSeq(s, m, n) /\ \A j \in m .. n : s[j] \in S
    BY <1>1
  <2>2. /\ a \in Seq(S) /\ Len(a) = IF m <= n THEN n - m + 1 ELSE 0
        /\ \A j \in 1 .. n - m + 1 : a[j] = s[m + j - 1]
    <3> HIDE DEF a, n, m
    <3> QED
      BY <2>1, SubSeqProperties
  <2>3. n \in Nat /\ k \in 0 .. n
    BY <1>1
  <2> HIDE DEF a, n
  <2>4. Len(a) = n - k
    BY <2>2, <2>3
  <2>5. ASSUME NEW j \in 1 .. n - k PROVE a[j] = s[k + j]
    <3>1. j \in 1 .. n - (k + 1) + 1 /\ k + 1 + j - 1 = k + j
      BY <2>3
    <3> QED
      BY <3>1, <2>2
  <2> QED
    BY <2>2, <2>4, <2>5
<1>4. k \in 0 .. n
  OBVIOUS
<1> HIDE DEF a, b, n
<1>5. /\ t \in Seq(S) /\ Len(t) = n
      /\ \A j \in 1 .. n : t[j] = IF j <= n - k THEN a[j] ELSE b[j - (n - k)]
  <2>1. Len(a) + Len(b) = n
    BY <1>1, <1>2, <1>3, <1>4
  <2>2. a \in Seq(S) /\ b \in Seq(S) /\ Len(a) = n - k
    BY <1>2, <1>3
  <2>3. /\ t \in Seq(S) /\ Len(t) = Len(a) + Len(b)
        /\ \A j \in 1 .. Len(a) + Len(b) : t[j] = IF j <= Len(a) THEN a[j] ELSE b[j - Len(a)]
    BY <2>2, ConcatProperties
  <2> QED
    BY <2>1, <2>2, <2>3
<1> HIDE DEF t
<1>6. \A j \in 1 .. n : t[j] = IF j <= n - k THEN s[k + j] ELSE s[j - (n - k)]
  <2> TAKE j \in 1 .. n
  <2>1. CASE j <= n - k
    <3>1. j \in 1 .. n - k
      BY <2>1, <1>1, <1>4
    <3>2. a[j] = s[k + j]
      BY <3>1, <1>3
    <3> QED
      BY <2>1, <3>2, <1>5
  <2>2. CASE ~ (j <= n - k)
    <3>1. j - (n - k) \in 1 .. k
      BY <2>2, <1>1, <1>4
    <3> QED
      BY <2>2, <3>1, <1>1, <1>2, <1>4, <1>5
  <2> QED
    BY <2>1, <2>2
<1> QED
  BY <1>5, <1>6 DEF t, a, b, n

LEMMA Rotated ==
  ASSUME NEW S, NEW s \in Seq(S), NEW k \in 0 .. Len(s), IsInjective(s)
  PROVE  LET t == SubSeq(s, k + 1, Len(s)) \o SubSeq(s, 1, k)
         IN  t \in Seq(S) /\ IsInjective(t) /\ ToSet(t) = ToSet(s)
<1> DEFINE t == SubSeq(s, k + 1, Len(s)) \o SubSeq(s, 1, k)
           n == Len(s)
<1>1. n \in Nat /\ DOMAIN s = 1 .. n /\ \A j \in 1 .. n : s[j] \in S
  BY LenProperties, ElementOfSeq
<1>2. k \in 0 .. n
  OBVIOUS
<1>3. /\ t \in Seq(S) /\ Len(t) = n
      /\ \A j \in 1 .. n : t[j] = IF j <= n - k THEN s[k + j] ELSE s[j - (n - k)]
  BY RotatedIs
<1> HIDE DEF t, n
<1>4. DOMAIN t = 1 .. n
  BY <1>3, LenProperties
<1> DEFINE f(j) == IF j <= n - k THEN k + j ELSE j - (n - k)
           g(j) == IF j <= k THEN j + (n - k) ELSE j - k
<1>5. \A j \in 1 .. n : f(j) \in 1 .. n /\ t[j] = s[f(j)]
  BY <1>1, <1>2, <1>3
<1>6. \A j \in 1 .. n : g(j) \in 1 .. n /\ f(g(j)) = j
  BY <1>1, <1>2
<1>7. \A j, l \in 1 .. n : f(j) = f(l) => j = l
  BY <1>1, <1>2
<1> HIDE DEF f, g
<1>8. IsInjective(t)
  BY <1>1, <1>4, <1>5, <1>7 DEF IsInjective
<1>9. ToSet(t) = ToSet(s)
  <2>1. ToSet(t) \subseteq ToSet(s)
    BY <1>1, <1>4, <1>5 DEF ToSet
  <2>2. ASSUME NEW j \in 1 .. n PROVE s[j] \in ToSet(t)
    <3>1. t[g(j)] = s[j] /\ g(j) \in DOMAIN t
      BY <1>4, <1>5, <1>6
    <3> QED
      BY <3>1 DEF ToSet
  <2> QED
    BY <2>1, <2>2, <1>1 DEF ToSet
<1> QED
  BY <1>3, <1>8, <1>9 DEF t
=============================================================================
