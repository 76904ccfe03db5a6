--------------------------- MODULE DataPoolProofs ---------------------------
(* The counts of a data pool and its refinement of ItemPool, for any threads,     *)
(* items, maxima and callbacks; the storage table and its refinement of           *)
(* TupleQueue.                                                                    *)
EXTENDS DataPool, PoolStorage, SequenceFacts, FiniteSetTheorems, TLAPS

(* A signal moves at most one thread, from "waiting" to "woken". *)
LEMMA SignalledMoves ==
  ASSUME NEW a \in [Threads -> Places], NEW b \in Signalled(a)
  PROVE  /\ b \in [Threads -> Places]
         /\ \A u \in Threads : b[u] = a[u] \/ (a[u] = "waiting" /\ b[u] = "woken")
BY DEF Signalled, Waiting, Places

(* A step moves thread t to p; a signal it sends may wake one other thread. *)
Moves(t, p) ==
  /\ at' \in [Threads -> Places]
  /\ at'[t] = p
  /\ \A u \in Threads \ {t} :
       at'[u] = at[u] \/ (at[u] = "waiting" /\ at'[u] = "woken")

LEMMA SignalMoves ==
  ASSUME TypeOK, NEW t \in Threads, NEW p \in Places \ {"waiting"},
         at' \in Signalled([at EXCEPT ![t] = p])
  PROVE  Moves(t, p)
<1> DEFINE a == [at EXCEPT ![t] = p]
<1>1. a \in [Threads -> Places] /\ a[t] = p /\ \A u \in Threads \ {t} : a[u] = at[u]
  BY DEF TypeOK
<1>2. /\ at' \in [Threads -> Places]
      /\ \A u \in Threads : at'[u] = a[u] \/ (a[u] = "waiting" /\ at'[u] = "woken")
  BY <1>1, SignalledMoves
<1> QED
  BY <1>1, <1>2 DEF Moves

LEMMA PlainMoves ==
  ASSUME TypeOK, NEW t \in Threads, NEW p \in Places,
         at' = [at EXCEPT ![t] = p]
  PROVE  Moves(t, p)
BY DEF TypeOK, Moves

LEMMA TakeStoredMoves == ASSUME TypeOK, NEW t \in Threads, TakeStored(t) PROVE Moves(t, "idle")
<1>1. CASE at' \in Signalled([at EXCEPT ![t] = "idle"])
  BY <1>1, SignalMoves DEF Places
<1>2. CASE at' = [at EXCEPT ![t] = "idle"]
  BY <1>2, PlainMoves DEF Places
<1> QED
  BY <1>1, <1>2 DEF TakeStored, Returns

(* Where a call can stand. *)
Calls == \A t \in Threads :
           /\ op[t] = "none" <=> at[t] \in {"idle", "dead"}
           /\ at[t] = "yield" => op[t] = "put"
           /\ at[t] = "callback" => op[t] \in {"put", "get"}
           /\ op[t] = "get" => t \in Readers

(* A put has its data at hand until a reader pops them; an offer has a writer. *)
Held == /\ nput # 0 => writer \in Threads
        /\ \A t \in Threads :
             /\ op[t] = "put" /\ at[t] # "yield" => item[t] \in Items
             /\ at[t] = "yield" => writer = t /\ (nput # 0 => item[t] \in Items)

Counted == nwaits >= Cardinality(BlockedReaders)

(* How the number of blocked readers follows the set of them. *)
LEMMA CountFollows ==
  ASSUME NEW B, IsFiniteSet(B), NEW C, NEW t
  PROVE  /\ Cardinality(B) \in Nat
         /\ C \subseteq B => Cardinality(C) <= Cardinality(B)
         /\ t \notin B /\ C = B \cup {t} => Cardinality(C) = Cardinality(B) + 1
         /\ t \in B /\ C = B \ {t} => /\ Cardinality(C) = Cardinality(B) - 1
                                     /\ Cardinality(B) > 0
<1>1. Cardinality(B) \in Nat
  BY FS_CardinalityType
<1>2. C \subseteq B => Cardinality(C) <= Cardinality(B)
  BY FS_Subset
<1>3. t \notin B /\ C = B \cup {t} => Cardinality(C) = Cardinality(B) + 1
  BY FS_AddElement
<1>4. t \in B /\ C = B \ {t} => Cardinality(C) = Cardinality(B) - 1
  BY FS_RemoveElement
<1>5. t \in B => Cardinality(B) # 0
  BY FS_EmptySet
<1> QED
  BY <1>1, <1>2, <1>3, <1>4, <1>5

(* A step that moves one thread keeps the calls in shape and changes the set   *)
(* of blocked readers by that thread at most.                                  *)
LEMMA CallsKept ==
  ASSUME TypeOK, Calls, NEW t \in Threads, NEW p \in Places, NEW o \in Ops,
         Moves(t, p), op' = [op EXCEPT ![t] = o],
         o = "none" <=> p \in {"idle", "dead"},
         p = "yield" => o = "put",
         p = "callback" => o \in {"put", "get"},
         o = "get" => t \in Readers
  PROVE  /\ Calls'
         /\ BlockedReaders' = IF o = "get" /\ p # "callback"
                              THEN BlockedReaders \cup {t}
                              ELSE BlockedReaders \ {t}
<1>1. \A u \in Threads \ {t} : op'[u] = op[u]
  BY DEF TypeOK
<1>2. op'[t] = o /\ at'[t] = p
  BY DEF TypeOK, Moves
<1>3. Calls'
  <2> SUFFICES ASSUME NEW u \in Threads
               PROVE  /\ op'[u] = "none" <=> at'[u] \in {"idle", "dead"}
                      /\ at'[u] = "yield" => op'[u] = "put"
                      /\ at'[u] = "callback" => op'[u] \in {"put", "get"}
                      /\ op'[u] = "get" => u \in Readers
    BY DEF Calls
  <2>1. CASE u = t
    BY <2>1, <1>2
  <2>2. CASE u # t
    BY <2>2, <1>1 DEF Calls, Moves
  <2> QED BY <2>1, <2>2
<1>4. \A u \in Threads \ {t} : (op'[u] = "get" /\ at'[u] # "callback")
                               <=> (op[u] = "get" /\ at[u] # "callback")
  BY <1>1 DEF Moves
<1> QED
  BY <1>2, <1>3, <1>4 DEF BlockedReaders

LEMMA BlockedFinite == IsFiniteSet(BlockedReaders)
<1>1. BlockedReaders \subseteq Threads
  BY DEF BlockedReaders
<1> QED
  BY <1>1, PoolAssumption, FS_Subset

LEMMA CountKept ==
  ASSUME TypeOK, Counted, NEW t \in Threads
  PROVE  /\ t \in BlockedReaders => nwaits > 0
         /\ BlockedReaders' \subseteq BlockedReaders /\ nwaits' = nwaits => Counted'
         /\ t \notin BlockedReaders /\ BlockedReaders' = BlockedReaders \cup {t}
            /\ nwaits' = nwaits + 1 => Counted'
         /\ t \in BlockedReaders /\ BlockedReaders' = BlockedReaders \ {t}
            /\ nwaits' = nwaits - 1 => Counted'
<1>1. nwaits \in Nat
  BY DEF TypeOK
<1>2. IsFiniteSet(BlockedReaders)
  BY BlockedFinite
<1>3. t \in BlockedReaders => Cardinality(BlockedReaders) > 0
  BY <1>2, CountFollows
<1>4. /\ Cardinality(BlockedReaders) \in Nat
      /\ BlockedReaders' \subseteq BlockedReaders =>
           Cardinality(BlockedReaders') <= Cardinality(BlockedReaders)
      /\ t \notin BlockedReaders /\ BlockedReaders' = BlockedReaders \cup {t} =>
           Cardinality(BlockedReaders') = Cardinality(BlockedReaders) + 1
      /\ t \in BlockedReaders /\ BlockedReaders' = BlockedReaders \ {t} =>
           Cardinality(BlockedReaders') = Cardinality(BlockedReaders) - 1
  BY <1>2, CountFollows
<1>5. IsFiniteSet(BlockedReaders') => Cardinality(BlockedReaders') \in Nat
  BY FS_CardinalityType
<1>6. /\ BlockedReaders' \subseteq BlockedReaders => IsFiniteSet(BlockedReaders')
      /\ BlockedReaders' = BlockedReaders \cup {t} => IsFiniteSet(BlockedReaders')
      /\ BlockedReaders' = BlockedReaders \ {t} => IsFiniteSet(BlockedReaders')
  BY <1>2, FS_Subset, FS_AddElement, FS_RemoveElement
<1> QED
  BY <1>1, <1>3, <1>4, <1>5, <1>6 DEF Counted

(* The inductive invariant. *)
IInv == TypeOK /\ Calls /\ Held /\ Counted

LEMMA StoreKeeps ==
  ASSUME IInv, NEW t \in Threads, NEW i \in Items,
         op[t] # "get", Store(t, i), UNCHANGED <<nwaits, max, flags, result, interrupted>>,
         \/ UNCHANGED <<nput, writer>> /\ at[t] # "yield"
         \/ nput' = 0 /\ writer' = NoThread /\ writer = t
  PROVE  IInv'
<1>1. Moves(t, "idle")
  BY SignalMoves DEF Store, Returns, IInv, Places
<1>2. TypeOK'
  <2>1. store' \in Seq(Items)
    BY DEF Store, IInv, TypeOK
  <2>2. nput' \in {0, 1} /\ writer' \in Threads \cup {NoThread}
    BY DEF IInv, TypeOK
  <2>3. /\ op' \in [Threads -> Ops] /\ at' \in [Threads -> Places]
        /\ item' \in [Threads -> Items \cup {NoItem}]
        /\ timed' \in [Threads -> BOOLEAN]
    BY <1>1 DEF Store, Returns, IInv, TypeOK, Ops, Moves
  <2> QED
    BY <2>1, <2>2, <2>3 DEF IInv, TypeOK
<1>3. Calls' /\ BlockedReaders' = BlockedReaders \ {t}
  BY <1>1, CallsKept DEF Store, Returns, IInv, Places, Ops
<1>4. Held'
  BY <1>1 DEF Held, Store, Returns, IInv, TypeOK, Moves
<1>5. Counted'
  BY <1>3, CountKept DEF IInv
<1> QED
  BY <1>2, <1>3, <1>4, <1>5 DEF IInv

LEMMA DepositKeeps ==
  ASSUME IInv, NEW t \in Threads, NEW i \in Items,
         op[t] # "get", at[t] # "yield",
         Deposit(t, i), UNCHANGED <<nwaits, max, flags, result, interrupted>>
  PROVE  IInv'
<1>1. CASE HandOff(t, i)
  <2>1. Moves(t, "yield")
    BY <1>1, SignalMoves DEF HandOff, IInv, Places
  <2>2. TypeOK'
    BY <1>1, <2>1 DEF HandOff, IInv, TypeOK, Ops, Moves
  <2>3. Calls' /\ BlockedReaders' = BlockedReaders \ {t}
    BY <1>1, <2>1, CallsKept DEF HandOff, Places, Ops, IInv
  <2>4. Held'
    BY <1>1, <2>1, PoolAssumption DEF Held, HandOff, IInv, TypeOK, Moves
  <2>5. Counted'
    BY <2>3, CountKept DEF IInv
  <2> QED
    BY <2>2, <2>3, <2>4, <2>5 DEF IInv
<1>2. CASE Store(t, i) /\ UNCHANGED <<nput, writer>>
  BY <1>2, StoreKeeps
<1> QED
  BY <1>1, <1>2 DEF Deposit

LEMMA TakeStoredKeeps ==
  ASSUME IInv, NEW t \in Threads,
         op[t] # "put", at[t] # "yield", TakeStored(t),
         UNCHANGED <<nput, writer, max, flags, item, interrupted>>,
         \/ t \notin BlockedReaders /\ nwaits' = nwaits
         \/ t \in BlockedReaders /\ nwaits' = nwaits - 1
  PROVE  IInv'
<1>1. Moves(t, "idle")
  BY TakeStoredMoves DEF IInv
<1>2. TypeOK'
  <2>1. store' \in Seq(Items) /\ Head(store) \in Items
    BY DEF TakeStored, IInv, TypeOK
  <2>2. nwaits' \in Nat
    BY CountKept DEF IInv, TypeOK
  <2>3. /\ op' \in [Threads -> Ops] /\ at' \in [Threads -> Places]
        /\ result' \in [Threads -> Items \cup {NoItem, Garbage}]
        /\ timed' \in [Threads -> BOOLEAN]
    BY <1>1, <2>1 DEF TakeStored, Returns, IInv, TypeOK, Ops, Moves
  <2> QED
    BY <2>1, <2>2, <2>3 DEF IInv, TypeOK
<1>3. Calls' /\ BlockedReaders' = BlockedReaders \ {t}
  BY <1>1, CallsKept DEF TakeStored, Returns, IInv, Places, Ops
<1>4. Held'
  BY <1>1 DEF Held, TakeStored, Returns, IInv, TypeOK, Moves
<1>5. Counted'
  BY <1>3, CountKept DEF IInv
<1> QED
  BY <1>2, <1>3, <1>4, <1>5 DEF IInv

LEMMA ReaderWaitsKeeps ==
  ASSUME IInv, NEW t \in Threads, t \in Readers, NEW timeout \in BOOLEAN,
         op[t] # "put", at[t] # "yield", ReaderWaits(t, timeout),
         UNCHANGED <<nput, writer, max, flags, item, interrupted>>,
         \/ t \notin BlockedReaders /\ nwaits' = nwaits + 1
         \/ t \in BlockedReaders /\ nwaits' = nwaits
  PROVE  IInv'
<1>1. Moves(t, "leaving")
  BY PlainMoves DEF IInv, Places, ReaderWaits
<1>2. TypeOK'
  BY <1>1 DEF ReaderWaits, IInv, TypeOK, Ops, Moves
<1>3. Calls' /\ BlockedReaders' = BlockedReaders \cup {t}
  BY <1>1, CallsKept DEF ReaderWaits, IInv, Places, Ops
<1>4. Held'
  BY <1>1 DEF Held, ReaderWaits, IInv, TypeOK, Moves
<1>5. Counted'
  BY <1>3, CountKept DEF IInv
<1> QED
  BY <1>2, <1>3, <1>4, <1>5 DEF IInv

LEMMA TakeOfferedKeeps ==
  ASSUME IInv, NEW t \in Threads,
         op[t] = "get", at[t] = "woken", TakeOffered(t),
         UNCHANGED <<writer, max, flags, interrupted>>
  PROVE  IInv'
<1>1. Moves(t, "idle")
  BY PlainMoves DEF TakeOffered, Returns, IInv, Places
<1>2. t \in BlockedReaders
  BY DEF BlockedReaders
<1>3. writer \in Threads
  BY DEF TakeOffered, IInv, Held
<1>4. TypeOK'
  <2>1. nwaits' \in Nat
    BY <1>2, CountKept DEF TakeOffered, IInv, TypeOK
  <2>2. StackTop(writer) \in Items \cup {NoItem, Garbage}
    BY <1>3 DEF StackTop, IInv, TypeOK
  <2>3. /\ op' \in [Threads -> Ops] /\ at' \in [Threads -> Places]
        /\ result' \in [Threads -> Items \cup {NoItem, Garbage}]
        /\ item' \in [Threads -> Items \cup {NoItem}]
        /\ timed' \in [Threads -> BOOLEAN]
    BY <1>1, <1>3, <2>2 DEF TakeOffered, Returns, IInv, TypeOK, Ops, Moves
  <2> QED
    BY <2>1, <2>3 DEF TakeOffered, IInv, TypeOK
<1>5. Calls' /\ BlockedReaders' = BlockedReaders \ {t}
  BY <1>1, CallsKept DEF TakeOffered, Returns, IInv, Places, Ops
<1>6. Held'
  <2>1. \A u \in Threads \ {writer} : item'[u] = item[u]
    BY <1>3 DEF TakeOffered, IInv, TypeOK
  <2>2. item'[writer] = item[writer] \/ at[writer] = "yield"
    BY <1>3, PoolAssumption DEF TakeOffered, StackTop, IInv, TypeOK
  <2>3. \A u \in Threads \ {t} : op'[u] = op[u]
    BY DEF TakeOffered, Returns, IInv, TypeOK
  <2>4. op'[t] = "none" /\ at'[t] = "idle" /\ nput' = 0 /\ writer' = writer
    BY <1>1 DEF TakeOffered, Returns, IInv, TypeOK, Moves
  <2> SUFFICES ASSUME NEW u \in Threads \ {t}
               PROVE  /\ op'[u] = "put" /\ at'[u] # "yield" => item'[u] \in Items
                      /\ at'[u] = "yield" => writer' = u
    BY <2>4 DEF Held
  <2> QED
    BY <1>1, <2>1, <2>2, <2>3, <2>4 DEF Held, IInv, Moves
<1>7. Counted'
  BY <1>2, <1>5, CountKept DEF IInv, TakeOffered
<1> QED
  BY <1>4, <1>5, <1>6, <1>7 DEF IInv

LEMMA PutKeeps ==
  ASSUME IInv, NEW t \in Threads, NEW i \in Items, Put(t, i)
  PROVE  IInv'
<1>1. at[t] = "idle" /\ op[t] = "none" /\ UNCHANGED <<nwaits, max, flags, result, interrupted>>
  BY DEF Put, IInv, Calls
<1>2. CASE PutHeldUp(t, i)
  <2>1. PICK p \in {"callback", "leaving"} : at' = [at EXCEPT ![t] = p]
    BY <1>2 DEF PutHeldUp
  <2>2. Moves(t, p)
    BY <2>1, PlainMoves DEF IInv, Places
  <2>3. TypeOK'
    BY <1>1, <1>2, <2>2 DEF PutHeldUp, IInv, TypeOK, Ops, Moves
  <2>4. Calls' /\ BlockedReaders' = BlockedReaders \ {t}
    BY <1>2, <2>2, CallsKept DEF PutHeldUp, IInv, Places, Ops
  <2>5. Held'
    BY <1>2, <2>2 DEF Held, PutHeldUp, IInv, TypeOK, Moves
  <2>6. Counted'
    BY <1>1, <2>4, CountKept DEF IInv
  <2> QED
    BY <2>3, <2>4, <2>5, <2>6 DEF IInv
<1>3. CASE Deposit(t, i)
  BY <1>1, <1>3, DepositKeeps
<1> QED
  BY <1>2, <1>3 DEF Put

(* A step that changes only where thread t stands, and ends or keeps its call. *)
LEMMA MoveKeeps ==
  ASSUME IInv, NEW t \in Threads,
         NEW p \in Places \ {"yield", "callback"}, NEW o \in Ops,
         o = "put" => at[t] # "yield",
         at' = [at EXCEPT ![t] = p], op' = [op EXCEPT ![t] = o],
         o = "none" <=> p \in {"idle", "dead"},
         o \in {"none", op[t]} \/ (op[t] = "none" /\ o = "wait"),
         at[t] = "callback" => o # "get",
         o = "put" => item' = item,
         item' \in {item, [item EXCEPT ![t] = NoItem]},
         timed' \in [Threads -> BOOLEAN],
         result' \in [Threads -> Items \cup {NoItem, Garbage}],
         UNCHANGED <<store, nput, writer, max, flags, interrupted>>,
         \/ nwaits' = nwaits
         \/ t \in BlockedReaders /\ o = "none" /\ nwaits' = nwaits - 1
  PROVE  IInv'
<1>1. Moves(t, p)
  BY PlainMoves DEF IInv
<1>2. TypeOK'
  <2>1. nwaits' \in Nat
    BY CountKept DEF IInv, TypeOK
  <2>2. op' \in [Threads -> Ops] /\ item' \in [Threads -> Items \cup {NoItem}]
    BY DEF IInv, TypeOK
  <2> QED
    BY <1>1, <2>1, <2>2 DEF IInv, TypeOK, Moves
<1>3. /\ Calls'
      /\ BlockedReaders' = IF o = "get" THEN BlockedReaders \cup {t}
                                        ELSE BlockedReaders \ {t}
  <2>1. TypeOK /\ Calls
    BY DEF IInv
  <2>2. /\ o = "get" => t \in Readers /\ p # "callback"
        /\ p = "callback" => o \in {"put", "get"}
    BY <2>1 DEF Calls
  <2> QED
    BY <1>1, <2>1, <2>2, CallsKept
<1>4. Held'
  <2>1. \A u \in Threads \ {t} : item'[u] = item[u] /\ op'[u] = op[u]
    BY DEF IInv, TypeOK
  <2>2. op'[t] = o /\ at'[t] = p /\ (o = "put" => item'[t] = item[t] /\ op[t] = "put")
    BY <1>1 DEF IInv, TypeOK, Moves
  <2> QED
    BY <1>1, <2>1, <2>2 DEF Held, IInv, Moves
<1>5. o = "get" => t \in BlockedReaders
  BY DEF BlockedReaders
<1>6. Counted'
  BY <1>3, <1>5, CountKept DEF IInv
<1> QED
  BY <1>2, <1>3, <1>4, <1>6 DEF IInv

LEMMA ProceedKeeps ==
  ASSUME IInv, NEW t \in Threads, Proceed(t)
  PROVE  IInv'
<1> USE DEF pool
<1>0. /\ op[t] \in Ops /\ [op EXCEPT ![t] = op[t]] = op /\ TypeOK
      /\ [timed EXCEPT ![t] = FALSE] \in [Threads -> BOOLEAN]
      /\ [result EXCEPT ![t] = NoItem] \in [Threads -> Items \cup {NoItem, Garbage}]
  BY DEF IInv, TypeOK
<1>1. CASE CondWait(t)
  <2>1. op[t] # "none" /\ op' = [op EXCEPT ![t] = op[t]]
    BY <1>0, <1>1 DEF CondWait, IInv, Calls
  <2> QED
    BY <1>0, <1>1, <2>1, MoveKeeps DEF CondWait, Places, TypeOK
<1>2. CASE WaitTimesOut(t)
  <2>1. op[t] # "none" /\ op' = [op EXCEPT ![t] = op[t]] /\ at[t] # "yield" /\ at[t] # "callback"
    BY <1>0, <1>2 DEF WaitTimesOut, IInv, Calls
  <2> QED
    BY <1>0, <1>2, <2>1, MoveKeeps DEF WaitTimesOut, Places, TypeOK
<1>3. CASE FullCallbackKeeps(t)
  BY <1>3, DepositKeeps DEF FullCallbackKeeps, IInv, Held
<1>4. CASE FullCallbackDrops(t)
  BY <1>0, <1>4, MoveKeeps DEF FullCallbackDrops, Returns, Places, Ops, TypeOK
<1>5. CASE PutResumes(t)
  <2>1. at[t] \in {"woken", "timedout"} /\ op[t] = "put" /\ item[t] \in Items
    BY <1>5 DEF PutResumes, Resumable, IInv, Held
  <2>2. CASE Full /\ at' = [at EXCEPT ![t] = "leaving"]
                  /\ UNCHANGED <<store, nput, writer, op, item, timed>>
    BY <1>0, <1>5, <2>1, <2>2, MoveKeeps DEF PutResumes, Places, Ops, TypeOK
  <2>3. CASE Deposit(t, item[t])
    BY <1>5, <2>1, <2>3, DepositKeeps DEF PutResumes
  <2> QED
    BY <1>5, <2>2, <2>3 DEF PutResumes
<1>6. CASE PutYieldReturns(t)
  <2>1. op[t] = "put" /\ at[t] = "yield" /\ writer = t
    BY <1>6 DEF PutYieldReturns, IInv, Held
  <2>2. CASE nput # 0 /\ Store(t, item[t])
    BY <1>6, <2>1, <2>2, StoreKeeps DEF PutYieldReturns, IInv, Held
  <2>3. CASE nput = 0 /\ Returns(t, {[at EXCEPT ![t] = "idle"]})
                      /\ item' = [item EXCEPT ![t] = NoItem] /\ UNCHANGED store
    <3>1. Moves(t, "idle")
      BY <2>3, PlainMoves DEF Returns, IInv, Places
    <3>2. TypeOK'
      BY <1>6, <2>3, <3>1 DEF PutYieldReturns, Returns, IInv, TypeOK, Ops, Moves
    <3>3. Calls' /\ BlockedReaders' = BlockedReaders \ {t}
      BY <2>3, <3>1, CallsKept DEF Returns, IInv, Places, Ops
    <3>4. Held'
      BY <1>6, <2>1, <2>3, <3>1 DEF PutYieldReturns, Held, Returns, IInv, TypeOK, Moves
    <3>5. Counted'
      BY <1>6, <3>3, CountKept DEF PutYieldReturns, IInv
    <3> QED
      BY <3>2, <3>3, <3>4, <3>5 DEF IInv
  <2> QED
    BY <1>6, <2>2, <2>3 DEF PutYieldReturns
<1>7. CASE EmptyCallbackReturns(t)
  <2>1. t \notin BlockedReaders /\ timed[t] \in BOOLEAN /\ t \in Readers
    BY <1>7 DEF EmptyCallbackReturns, BlockedReaders, IInv, TypeOK, Calls
  <2> QED
    BY <1>7, <2>1, TakeStoredKeeps, ReaderWaitsKeeps DEF EmptyCallbackReturns
<1>8. CASE EmptyCallbackAnswers(t)
  BY <1>0, <1>8, MoveKeeps DEF EmptyCallbackAnswers, Returns, Places, Ops, TypeOK
<1>9. CASE GetTimesOut(t)
  <2>1. t \in BlockedReaders
    BY <1>9 DEF GetTimesOut, BlockedReaders
  <2> QED
    BY <1>0, <1>9, <2>1, MoveKeeps DEF GetTimesOut, Returns, Places, Ops, TypeOK
<1>10. CASE GetResumes(t)
  <2>1. t \in BlockedReaders /\ timed[t] \in BOOLEAN /\ t \in Readers
    BY <1>10 DEF GetResumes, BlockedReaders, IInv, TypeOK, Calls
  <2> QED
    BY <1>10, <2>1, TakeOfferedKeeps, TakeStoredKeeps, ReaderWaitsKeeps DEF GetResumes
<1>11. CASE WaitReturns(t)
  BY <1>0, <1>11, MoveKeeps DEF WaitReturns, Resumable, Returns, Places, Ops, TypeOK
<1>12. CASE Raise(t)
  BY <1>0, <1>12, MoveKeeps DEF Raise, Places, Ops, TypeOK
<1> QED
  BY <1>1, <1>2, <1>3, <1>4, <1>5, <1>6, <1>7, <1>8, <1>9, <1>10, <1>11, <1>12
  DEF Proceed

LEMMA GetKeeps ==
  ASSUME IInv, NEW t \in Threads, NEW timeout \in BOOLEAN, Get(t, timeout)
  PROVE  IInv'
<1>1. /\ at[t] = "idle" /\ op[t] = "none" /\ t \notin BlockedReaders /\ t \in Readers
      /\ UNCHANGED <<nput, writer, max, flags, item, interrupted>>
  BY DEF Get, BlockedReaders, IInv, Calls
<1>2. CASE /\ op' = [op EXCEPT ![t] = "get"]
           /\ at' = [at EXCEPT ![t] = "callback"]
           /\ timed' = [timed EXCEPT ![t] = timeout]
           /\ UNCHANGED <<store, nwaits, result>>
  <2>1. Moves(t, "callback")
    BY <1>2, PlainMoves DEF IInv, Places
  <2>2. TypeOK'
    BY <1>1, <1>2, <2>1 DEF IInv, TypeOK, Ops, Moves
  <2>3. Calls' /\ BlockedReaders' = BlockedReaders \ {t}
    BY <1>1, <1>2, <2>1, CallsKept DEF IInv, Places, Ops
  <2>4. Held'
    BY <1>1, <1>2, <2>1 DEF Held, IInv, TypeOK, Moves
  <2>5. Counted'
    BY <1>2, <2>3, CountKept DEF IInv
  <2> QED
    BY <2>2, <2>3, <2>4, <2>5 DEF IInv
<1>3. CASE TakeStored(t) /\ UNCHANGED nwaits
  BY <1>1, <1>3, TakeStoredKeeps
<1>4. CASE ReaderWaits(t, timeout) /\ nwaits' = nwaits + 1
  BY <1>1, <1>4, ReaderWaitsKeeps
<1> QED
  BY <1>2, <1>3, <1>4 DEF Get

LEMMA StepKeeps == IInv /\ [Next]_vars => IInv'
<1> SUFFICES ASSUME IInv, [Next]_vars PROVE IInv'
  OBVIOUS
<1> USE DEF pool
<1>1. ASSUME NEW t \in Threads, Proceed(t) PROVE IInv'
  BY <1>1, ProceedKeeps
<1>2. ASSUME NEW t \in Threads, SpuriousWakeup(t) PROVE IInv'
  <2>1. /\ op[t] \in Ops /\ op[t] # "none" /\ op' = [op EXCEPT ![t] = op[t]]
        /\ timed \in [Threads -> BOOLEAN]
        /\ result \in [Threads -> Items \cup {NoItem, Garbage}]
    BY <1>2 DEF SpuriousWakeup, IInv, TypeOK, Calls
  <2> QED
    BY <1>2, <2>1, MoveKeeps DEF SpuriousWakeup, Places
<1>3. ASSUME NEW t \in Threads, NEW i \in Items, Put(t, i) PROVE IInv'
  BY <1>3, PutKeeps
<1>4. ASSUME NEW t \in Threads, NEW timeout \in BOOLEAN, Get(t, timeout) PROVE IInv'
  BY <1>4, GetKeeps
<1>5. ASSUME NEW t \in Threads, NEW timeout \in BOOLEAN, Wait(t, timeout) PROVE IInv'
  <2>1. /\ op[t] = "none" /\ timed' \in [Threads -> BOOLEAN]
        /\ result \in [Threads -> Items \cup {NoItem, Garbage}]
    BY <1>5 DEF Wait, IInv, TypeOK, Calls
  <2> QED
    BY <1>5, <2>1, MoveKeeps DEF Wait, Places, Ops
<1>6. ASSUME NEW m \in Marks, SetMax(m) PROVE IInv'
  BY <1>6 DEF SetMax, IInv, TypeOK, Calls, Held, Counted, BlockedReaders
<1>7. ASSUME NEW f \in CallbackSets, SetCallbacks(f) PROVE IInv'
  BY <1>7, PoolAssumption
  DEF SetCallbacks, IInv, TypeOK, Calls, Held, Counted, BlockedReaders
<1>8. ASSUME NEW t \in Interruptible, Interrupt(t) PROVE IInv'
  BY <1>8 DEF Interrupt, IInv, TypeOK, Calls, Held, Counted, BlockedReaders
<1>9. CASE UNCHANGED vars
  BY <1>9 DEF vars, IInv, TypeOK, Calls, Held, Counted, BlockedReaders
<1> QED
  BY <1>1, <1>2, <1>3, <1>4, <1>5, <1>6, <1>7, <1>8, <1>9 DEF Next

LEMMA InitHolds == Init => IInv
<1> SUFFICES ASSUME Init PROVE IInv
  OBVIOUS
<1>1. TypeOK
  BY PoolAssumption DEF Init, TypeOK, Ops, Places
<1>2. Calls /\ Held
  BY DEF Init, Calls, Held
<1>3. BlockedReaders = {}
  BY DEF Init, BlockedReaders
<1>4. Counted
  BY <1>3, FS_EmptySet DEF Counted, Init
<1> QED
  BY <1>1, <1>2, <1>4 DEF IInv

(* The pool never counts fewer readers than are blocked in it, so the counter  *)
(* nwaits never goes below zero; with that, every variable keeps its type, for *)
(* any threads, watermarks, callbacks, coroutines and interrupts.              *)
THEOREM PoolInvariant == Spec => []IInv
  BY InitHolds, StepKeeps, PTL DEF Spec

(* The type invariant the runs check holds for every value of the constants. *)
THEOREM PoolTypeOK == Spec => []TypeOK
<1>1. IInv => TypeOK
  BY DEF IInv
<1> QED
  BY <1>1, PoolInvariant, PTL

-----------------------------------------------------------------------------
(* The other bound of nwaits.  A reader that an interrupt ends is counted for     *)
(* ever, so what bounds nwaits is the readers that are blocked or dead.           *)

Behind == BlockedReaders \cup DeadReaders
Bounded == nwaits <= Cardinality(Behind)

LEMMA BehindFinite == IsFiniteSet(BlockedReaders) /\ IsFiniteSet(DeadReaders) /\ IsFiniteSet(Behind)
<1>1. Readers \subseteq Threads /\ IsFiniteSet(Threads)
  BY PoolAssumption
<1>2. BlockedReaders \subseteq Threads /\ DeadReaders \subseteq Threads /\ Behind \subseteq Threads
  BY <1>1 DEF BlockedReaders, DeadReaders, Behind
<1> QED
  BY <1>1, <1>2, FS_Subset

LEMMA BoundFollows ==
  ASSUME TypeOK, Bounded, NEW t \in Threads,
         \/ nwaits' = nwaits /\ Behind \subseteq Behind'
         \/ nwaits' = nwaits + 1 /\ t \notin Behind /\ Behind' = Behind \cup {t}
         \/ nwaits' = nwaits - 1 /\ t \in Behind /\ Behind' = Behind \ {t}
  PROVE  Bounded'
<1>1. nwaits \in Nat /\ IsFiniteSet(Behind)
  BY BehindFinite DEF TypeOK
<1>2. IsFiniteSet(Behind')
  <2>1. Behind' \subseteq Threads
    BY PoolAssumption DEF Behind, BlockedReaders, DeadReaders
  <2> QED
    BY <2>1, PoolAssumption, FS_Subset
<1>3. Cardinality(Behind) \in Nat /\ Cardinality(Behind') \in Nat
  BY <1>1, <1>2, FS_CardinalityType
<1>4. Behind \subseteq Behind' => Cardinality(Behind) <= Cardinality(Behind')
  BY <1>2, FS_Subset
<1>5. /\ t \notin Behind /\ Behind' = Behind \cup {t} =>
           Cardinality(Behind') = Cardinality(Behind) + 1
      /\ t \in Behind /\ Behind' = Behind \ {t} =>
           Cardinality(Behind') = Cardinality(Behind) - 1
  BY <1>1, CountFollows
<1> QED
  BY <1>1, <1>3, <1>4, <1>5 DEF Bounded

(* How a step of a thread that lives moves it among those that bound nwaits. *)
LEMMA BehindFollows ==
  ASSUME TypeOK, Calls, NEW t \in Threads, NEW p \in Places, NEW o \in Ops,
         Moves(t, p), op' = [op EXCEPT ![t] = o], at[t] # "dead"
  PROVE  /\ Behind' = IF (o = "get" /\ p # "callback") \/ (t \in Readers /\ p = "dead")
                      THEN Behind \cup {t} ELSE Behind \ {t}
         /\ t \in Behind <=> t \in BlockedReaders
<1>1. op'[t] = o /\ at'[t] = p /\ \A u \in Threads \ {t} : op'[u] = op[u]
  BY DEF TypeOK, Moves
<1>2. \A u \in Threads \ {t} : /\ u \in BlockedReaders' <=> u \in BlockedReaders
                               /\ u \in DeadReaders' <=> u \in DeadReaders
  BY <1>1 DEF BlockedReaders, DeadReaders, Moves, Calls
<1>3. /\ t \in BlockedReaders' <=> o = "get" /\ p # "callback"
      /\ t \in DeadReaders' <=> t \in Readers /\ p = "dead"
      /\ t \notin DeadReaders
  BY <1>1 DEF BlockedReaders, DeadReaders
<1>4. Behind \subseteq Threads /\ Behind' \subseteq Threads
  BY PoolAssumption DEF Behind, BlockedReaders, DeadReaders
<1> QED
  BY <1>2, <1>3, <1>4 DEF Behind

(* Steps of a thread that is not blocked in a get and does not become so. *)
LEMMA OthersBounded ==
  ASSUME IInv, Bounded, NEW t \in Threads, NEW p \in Places, NEW o \in Ops \ {"get"},
         Moves(t, p), op' = [op EXCEPT ![t] = o], at[t] # "dead",
         t \notin BlockedReaders, nwaits' = nwaits
  PROVE  Bounded'
<1>1. Behind \subseteq Behind'
  BY BehindFollows DEF IInv
<1> QED
  BY <1>1, BoundFollows DEF IInv

LEMMA DepositBounded ==
  ASSUME IInv, Bounded, NEW t \in Threads, NEW i \in Items, Deposit(t, i),
         op[t] # "get", at[t] # "dead", nwaits' = nwaits
  PROVE  Bounded'
<1>0. t \notin BlockedReaders
  BY DEF BlockedReaders
<1>1. CASE HandOff(t, i)
  <2>1. Moves(t, "yield")
    BY <1>1, SignalMoves DEF HandOff, IInv, Places
  <2> QED
    BY <1>0, <1>1, <2>1, OthersBounded DEF HandOff, Places, Ops
<1>2. CASE Store(t, i)
  <2>1. Moves(t, "idle")
    BY <1>2, SignalMoves DEF Store, Returns, IInv, Places
  <2> QED
    BY <1>0, <1>2, <2>1, OthersBounded DEF Store, Returns, Places, Ops
<1> QED
  BY <1>1, <1>2 DEF Deposit

(* A get comes back: with an item of the storage, or with none. *)
LEMMA GetReturnsBounded ==
  ASSUME IInv, Bounded, NEW t \in Threads, Moves(t, "idle"), op' = [op EXCEPT ![t] = "none"],
         at[t] # "dead",
         \/ t \notin BlockedReaders /\ nwaits' = nwaits
         \/ t \in BlockedReaders /\ nwaits' = nwaits - 1
  PROVE  Bounded'
<1>1. Behind' = Behind \ {t} /\ (t \in Behind <=> t \in BlockedReaders)
  BY BehindFollows DEF IInv, Places, Ops
<1> QED
  BY <1>1, BoundFollows DEF IInv

LEMMA TakeStoredBounded ==
  ASSUME IInv, Bounded, NEW t \in Threads, TakeStored(t), at[t] # "dead",
         \/ t \notin BlockedReaders /\ nwaits' = nwaits
         \/ t \in BlockedReaders /\ nwaits' = nwaits - 1
  PROVE  Bounded'
<1>1. Moves(t, "idle")
  BY TakeStoredMoves DEF IInv
<1> QED
  BY <1>1, GetReturnsBounded DEF TakeStored, Returns

LEMMA ReaderWaitsBounded ==
  ASSUME IInv, Bounded, NEW t \in Threads, NEW timeout \in BOOLEAN, ReaderWaits(t, timeout),
         at[t] # "dead",
         \/ t \notin BlockedReaders /\ nwaits' = nwaits + 1
         \/ t \in BlockedReaders /\ nwaits' = nwaits
  PROVE  Bounded'
<1>1. Moves(t, "leaving")
  BY PlainMoves DEF IInv, Places, ReaderWaits
<1>2. Behind' = Behind \cup {t} /\ (t \in Behind <=> t \in BlockedReaders)
  BY <1>1, BehindFollows DEF IInv, ReaderWaits, Places, Ops
<1> QED
  BY <1>2, BoundFollows DEF IInv

(* Steps that leave a thread in its call, and steps that end the thread. *)
LEMMA StandingBounded ==
  ASSUME IInv, Bounded, NEW t \in Threads, NEW p \in Places \ {"callback", "dead"},
         at' = [at EXCEPT ![t] = p], op' = op, at[t] \notin {"dead", "callback"}, nwaits' = nwaits
  PROVE  Bounded'
<1>1. Moves(t, p) /\ op[t] \in Ops /\ op' = [op EXCEPT ![t] = op[t]]
  BY PlainMoves DEF IInv, TypeOK
<1>2. /\ Behind' = IF op[t] = "get" THEN Behind \cup {t} ELSE Behind \ {t}
      /\ t \in Behind <=> t \in BlockedReaders
  BY <1>1, BehindFollows DEF IInv
<1>3. Behind \subseteq Behind'
  BY <1>2 DEF BlockedReaders
<1> QED
  BY <1>3, BoundFollows DEF IInv

LEMMA RaiseBounded == ASSUME IInv, Bounded, NEW t \in Threads, Raise(t) PROVE Bounded'
<1>1. at[t] # "dead" /\ nwaits' = nwaits /\ at' = [at EXCEPT ![t] = "dead"]
      /\ op' = [op EXCEPT ![t] = "none"]
  BY DEF Raise, Resumable, pool
<1>2. Moves(t, "dead")
  BY <1>1, PlainMoves DEF IInv, Places
<1>3. /\ Behind' = IF t \in Readers THEN Behind \cup {t} ELSE Behind \ {t}
      /\ t \in Behind <=> t \in BlockedReaders
  BY <1>1, <1>2, BehindFollows DEF IInv, Places, Ops
<1>4. t \in BlockedReaders => t \in Readers
  BY DEF BlockedReaders, IInv, Calls
<1>5. Behind \subseteq Behind'
  BY <1>3, <1>4
<1> QED
  BY <1>1, <1>5, BoundFollows DEF IInv

LEMMA ProceedBounded == ASSUME IInv, Bounded, NEW t \in Threads, Proceed(t) PROVE Bounded'
<1> USE DEF pool
<1>0. TypeOK
  BY DEF IInv
<1>1. CASE CondWait(t) \/ WaitTimesOut(t)
  BY <1>1, StandingBounded DEF CondWait, WaitTimesOut, Places
<1>2. CASE FullCallbackKeeps(t)
  BY <1>2, DepositBounded DEF FullCallbackKeeps, IInv, Held
<1>3. CASE FullCallbackDrops(t)
  <2>1. t \notin BlockedReaders /\ at' = [at EXCEPT ![t] = "idle"]
    BY <1>3 DEF FullCallbackDrops, Returns, BlockedReaders
  <2> QED
    BY <1>0, <1>3, <2>1, PlainMoves, GetReturnsBounded DEF FullCallbackDrops, Returns, Places
<1>4. CASE PutResumes(t)
  <2>1. at[t] \in {"woken", "timedout"} /\ op[t] = "put" /\ item[t] \in Items /\ nwaits' = nwaits
    BY <1>4 DEF PutResumes, Resumable, IInv, Held
  <2>2. CASE at' = [at EXCEPT ![t] = "leaving"] /\ op' = op
    BY <2>1, <2>2, StandingBounded DEF Places
  <2>3. CASE Deposit(t, item[t])
    BY <2>1, <2>3, DepositBounded
  <2> QED
    BY <1>4, <2>2, <2>3 DEF PutResumes
<1>5. CASE PutYieldReturns(t)
  <2>1. op[t] = "put" /\ at[t] = "yield" /\ nwaits' = nwaits /\ t \notin BlockedReaders
    BY <1>5 DEF PutYieldReturns, BlockedReaders
  <2>2. op' = [op EXCEPT ![t] = "none"] /\ Moves(t, "idle")
    <3>1. CASE at' \in Signalled([at EXCEPT ![t] = "idle"]) /\ op' = [op EXCEPT ![t] = "none"]
      BY <1>0, <3>1, SignalMoves DEF Places
    <3>2. CASE at' = [at EXCEPT ![t] = "idle"] /\ op' = [op EXCEPT ![t] = "none"]
      BY <1>0, <3>2, PlainMoves DEF Places
    <3> QED
      BY <1>5, <3>1, <3>2 DEF PutYieldReturns, Store, Returns
  <2> QED
    BY <2>1, <2>2, GetReturnsBounded
<1>6. CASE EmptyCallbackReturns(t)
  <2>1. t \notin BlockedReaders /\ timed[t] \in BOOLEAN /\ at[t] # "dead"
    BY <1>6 DEF EmptyCallbackReturns, BlockedReaders, IInv, TypeOK
  <2> QED
    BY <1>6, <2>1, TakeStoredBounded, ReaderWaitsBounded DEF EmptyCallbackReturns
<1>7. CASE EmptyCallbackAnswers(t)
  <2>1. t \notin BlockedReaders /\ at' = [at EXCEPT ![t] = "idle"]
    BY <1>7 DEF EmptyCallbackAnswers, Returns, BlockedReaders
  <2> QED
    BY <1>0, <1>7, <2>1, PlainMoves, GetReturnsBounded DEF EmptyCallbackAnswers, Returns, Places
<1>8. CASE GetTimesOut(t)
  <2>1. t \in BlockedReaders /\ at' = [at EXCEPT ![t] = "idle"]
    BY <1>8 DEF GetTimesOut, Returns, BlockedReaders
  <2> QED
    BY <1>0, <1>8, <2>1, PlainMoves, GetReturnsBounded DEF GetTimesOut, Returns, Places
<1>9. CASE GetResumes(t)
  <2>1. t \in BlockedReaders /\ timed[t] \in BOOLEAN /\ at[t] # "dead"
    BY <1>9 DEF GetResumes, BlockedReaders, IInv, TypeOK
  <2>2. CASE TakeOffered(t)
    <3>1. at' = [at EXCEPT ![t] = "idle"]
      BY <2>2 DEF TakeOffered, Returns
    <3> QED
      BY <1>0, <2>1, <2>2, <3>1, PlainMoves, GetReturnsBounded DEF TakeOffered, Returns, Places
  <2> QED
    BY <1>9, <2>1, <2>2, TakeStoredBounded, ReaderWaitsBounded DEF GetResumes
<1>10. CASE WaitReturns(t)
  <2>1. t \notin BlockedReaders /\ at' = [at EXCEPT ![t] = "idle"] /\ at[t] # "dead"
    BY <1>10 DEF WaitReturns, Returns, BlockedReaders, Resumable
  <2> QED
    BY <1>0, <1>10, <2>1, PlainMoves, GetReturnsBounded DEF WaitReturns, Returns, Places
<1>11. CASE Raise(t)
  BY <1>11, RaiseBounded
<1> QED
  BY <1>1, <1>2, <1>3, <1>4, <1>5, <1>6, <1>7, <1>8, <1>9, <1>10, <1>11 DEF Proceed

LEMMA StepBounded == IInv /\ Bounded /\ [Next]_vars => Bounded'
<1> SUFFICES ASSUME IInv, Bounded, [Next]_vars PROVE Bounded'
  OBVIOUS
<1> USE DEF pool
<1>0. TypeOK
  BY DEF IInv
<1>1. ASSUME NEW t \in Threads, Proceed(t) PROVE Bounded'
  BY <1>1, ProceedBounded
<1>2. ASSUME NEW t \in Threads, SpuriousWakeup(t) PROVE Bounded'
  BY <1>2, StandingBounded DEF SpuriousWakeup, Places
<1>3. ASSUME NEW t \in Threads, NEW i \in Items, Put(t, i) PROVE Bounded'
  <2>1. /\ at[t] = "idle" /\ op[t] = "none" /\ nwaits' = nwaits /\ t \notin BlockedReaders
    BY <1>3 DEF Put, BlockedReaders, IInv, Calls
  <2>2. CASE PutHeldUp(t, i)
    <3>1. PICK p \in {"callback", "leaving"} : at' = [at EXCEPT ![t] = p]
      BY <2>2 DEF PutHeldUp
    <3>2. Moves(t, p) /\ op' = [op EXCEPT ![t] = "put"]
      BY <1>0, <2>2, <3>1, PlainMoves DEF PutHeldUp, Places
    <3> QED
      BY <2>1, <3>2, OthersBounded DEF Places, Ops
  <2>3. CASE Deposit(t, i)
    BY <2>1, <2>3, DepositBounded
  <2> QED
    BY <1>3, <2>2, <2>3 DEF Put
<1>4. ASSUME NEW t \in Threads, NEW timeout \in BOOLEAN, Get(t, timeout) PROVE Bounded'
  <2>1. at[t] = "idle" /\ op[t] = "none" /\ t \notin BlockedReaders
    BY <1>4 DEF Get, BlockedReaders, IInv, Calls
  <2>2. CASE at' = [at EXCEPT ![t] = "callback"] /\ op' = [op EXCEPT ![t] = "get"] /\ nwaits' = nwaits
    <3>1. Moves(t, "callback")
      BY <1>0, <2>2, PlainMoves DEF Places
    <3>2. Behind' = Behind \ {t} /\ t \notin Behind
      BY <2>1, <2>2, <3>1, BehindFollows DEF IInv, Places, Ops
    <3> QED
      BY <1>0, <2>2, <3>2, BoundFollows
  <2>3. CASE TakeStored(t) /\ nwaits' = nwaits
    BY <2>1, <2>3, TakeStoredBounded
  <2>4. CASE ReaderWaits(t, timeout) /\ nwaits' = nwaits + 1
    BY <2>1, <2>4, ReaderWaitsBounded
  <2> QED
    BY <1>4, <2>2, <2>3, <2>4 DEF Get
<1>5. ASSUME NEW t \in Threads, NEW timeout \in BOOLEAN, Wait(t, timeout) PROVE Bounded'
  <2>1. at[t] # "dead" /\ t \notin BlockedReaders /\ Moves(t, "leaving")
    BY <1>0, <1>5, PlainMoves DEF Wait, BlockedReaders, IInv, Calls, Places
  <2> QED
    BY <1>5, <2>1, OthersBounded DEF Wait, Places, Ops
<1>6. CASE UNCHANGED <<nwaits, op, at>>
  BY <1>6 DEF Bounded, Behind, BlockedReaders, DeadReaders
<1> QED
  BY <1>1, <1>2, <1>3, <1>4, <1>5, <1>6 DEF Next, vars, SetMax, SetCallbacks, Interrupt

(* nwaits counts the readers that are blocked in a get, whether they are woken,   *)
(* time out, find their item taken or get an offered one, except for one more per *)
(* reader that was interrupted in a get.                                          *)
THEOREM PoolCountsReaders == Spec => []NwaitsCountsReaders
<1>1. Init => Bounded
  <2>1. ASSUME Init PROVE Behind = {}
    BY <2>1, PoolAssumption DEF Init, Behind, BlockedReaders, DeadReaders
  <2>2. Behind = {} => Cardinality(Behind) = 0
    BY FS_EmptySet
  <2> QED
    BY <2>1, <2>2 DEF Init, Bounded
<1>2. IInv /\ Bounded => NwaitsCountsReaders
  <2> SUFFICES ASSUME IInv, Bounded PROVE NwaitsCountsReaders
    OBVIOUS
  <2>1. BlockedReaders \cap DeadReaders = {}
    BY DEF IInv, Calls, BlockedReaders, DeadReaders
  <2>2. Cardinality(Behind) = Cardinality(BlockedReaders) + Cardinality(DeadReaders)
    <3>1. /\ IsFiniteSet(BlockedReaders) /\ IsFiniteSet(DeadReaders)
          /\ Cardinality(BlockedReaders) \in Nat /\ Cardinality(DeadReaders) \in Nat
      BY BehindFinite, FS_CardinalityType
    <3>2. Cardinality(Behind) = Cardinality(BlockedReaders) + Cardinality(DeadReaders)
                                - Cardinality(BlockedReaders \cap DeadReaders)
      BY <3>1, FS_Union DEF Behind
    <3>3. Cardinality(BlockedReaders \cap DeadReaders) = 0
      BY <2>1, FS_EmptySet
    <3> QED
      BY <3>1, <3>2, <3>3
  <2> QED
    BY <2>2 DEF NwaitsCountsReaders, Bounded, IInv, Counted
<1> QED
  BY <1>1, <1>2, InitHolds, StepKeeps, StepBounded, PTL DEF Spec

-----------------------------------------------------------------------------
(* The watermark, in a program that keeps its maximum and its callbacks. *)

(* An open offer is of a writer that found room; what it stores after all is the  *)
(* one item over.                                                                 *)
Over == "full" \notin flags =>
          /\ Len(store) <= max + 1
          /\ nput # 0 => Len(store) <= max
          /\ \A t \in Threads : op[t] = "put" => at[t] # "callback"

LEMMA StoreLengths ==
  ASSUME TypeOK
  PROVE  /\ Len(store) \in Nat /\ max \in Nat
         /\ \A i \in Items : Len(Append(store, i)) = Len(store) + 1
         /\ store # <<>> => Len(Tail(store)) = Len(store) - 1
BY PoolAssumption DEF TypeOK

LEMMA DepositOver ==
  ASSUME IInv, Over, NEW t \in Threads, NEW i \in Items, Deposit(t, i), ~Full,
         op[t] # "get", at[t] # "dead", UNCHANGED <<max, flags>>
  PROVE  Over'
<1>0. TypeOK
  BY DEF IInv
<1>1. CASE HandOff(t, i)
  <2>1. Moves(t, "yield")
    BY <1>0, <1>1, SignalMoves DEF HandOff, Places
  <2>2. \A u \in Threads : op'[u] = "put" /\ at'[u] = "callback" => op[u] = "put" /\ at[u] = "callback"
    BY <1>0, <1>1, <2>1 DEF HandOff, Moves, TypeOK
  <2> QED
    BY <1>0, <1>1, <2>2, StoreLengths DEF HandOff, Full, Over
<1>2. CASE Store(t, i) /\ UNCHANGED <<nput, writer>>
  <2>1. Moves(t, "idle")
    BY <1>0, <1>2, SignalMoves DEF Store, Returns, Places
  <2>2. \A u \in Threads : op'[u] = "put" /\ at'[u] = "callback" => op[u] = "put" /\ at[u] = "callback"
    BY <1>0, <1>2, <2>1 DEF Store, Returns, Moves, TypeOK
  <2> QED
    BY <1>0, <1>2, <2>2, StoreLengths DEF Store, Full, Over
<1> QED
  BY <1>1, <1>2 DEF Deposit

(* Steps after which nothing more is stored or offered. *)
LEMMA NoMoreOver ==
  ASSUME IInv, Over, NEW t \in Threads, NEW p \in Places, NEW o \in Ops,
         Moves(t, p), op' = [op EXCEPT ![t] = o], o = "put" /\ p = "callback" => "full" \in flags,
         UNCHANGED <<max, flags>>, nput' \in {0, nput},
         store' = store \/ (store # <<>> /\ store' = Tail(store))
  PROVE  Over'
<1>1. \A u \in Threads \ {t} : op'[u] = op[u] /\ (at'[u] = "callback" => at[u] = "callback")
  BY DEF IInv, TypeOK, Moves
<1>2. op'[t] = o /\ at'[t] = p
  BY DEF IInv, TypeOK, Moves
<1>3. Len(store') <= Len(store)
  BY StoreLengths DEF IInv
<1>4. Len(store) \in Nat /\ max \in Nat /\ Len(store') \in Nat
  BY StoreLengths DEF IInv
<1>5. nput \in {0, 1} /\ nput' \in {0, 1}
  BY DEF IInv, TypeOK
<1> QED
  BY <1>1, <1>2, <1>3, <1>4, <1>5 DEF Over

LEMMA ProceedOver == ASSUME IInv, Over, NEW t \in Threads, Proceed(t) PROVE Over'
<1> USE DEF pool
<1>0. TypeOK /\ op[t] \in Ops /\ op = [op EXCEPT ![t] = op[t]]
  BY DEF IInv, TypeOK
<1>1. CASE CondWait(t) \/ WaitTimesOut(t)
  <2>1. Moves(t, "waiting") \/ Moves(t, "timedout")
    BY <1>0, <1>1, PlainMoves DEF CondWait, WaitTimesOut, Places
  <2> QED
    BY <1>0, <1>1, <2>1, NoMoreOver DEF CondWait, WaitTimesOut, Places
<1>2. CASE FullCallbackKeeps(t)
  <2>1. "full" \in flags /\ flags' = flags
    BY <1>2 DEF FullCallbackKeeps, Over
  <2> QED
    BY <2>1 DEF Over
<1>3. CASE /\ FullCallbackDrops(t) \/ EmptyCallbackAnswers(t) \/ GetTimesOut(t) \/ WaitReturns(t)
  <2>1. Moves(t, "idle") /\ op' = [op EXCEPT ![t] = "none"]
    BY <1>0, <1>3, PlainMoves
       DEF FullCallbackDrops, EmptyCallbackAnswers, GetTimesOut, WaitReturns, Returns, Places
  <2>2. UNCHANGED <<store, nput, max, flags>>
    BY <1>3 DEF FullCallbackDrops, EmptyCallbackAnswers, GetTimesOut, WaitReturns
  <2> QED
    BY <2>1, <2>2, NoMoreOver DEF Places, Ops
<1>4. CASE PutResumes(t)
  <2>1. at[t] \in {"woken", "timedout"} /\ op[t] = "put" /\ item[t] \in Items
        /\ UNCHANGED <<max, flags>>
    BY <1>4 DEF PutResumes, Resumable, IInv, Held
  <2>2. CASE at' = [at EXCEPT ![t] = "leaving"] /\ UNCHANGED <<store, nput, op>>
    BY <1>0, <2>1, <2>2, PlainMoves, NoMoreOver DEF Places
  <2>3. CASE ~Full /\ Deposit(t, item[t])
    BY <2>1, <2>3, DepositOver
  <2> QED
    BY <1>4, <2>2, <2>3 DEF PutResumes
<1>5. CASE PutYieldReturns(t)
  <2>1. op[t] = "put" /\ at[t] = "yield" /\ UNCHANGED <<max, flags>> /\ nput' = 0
    BY <1>5 DEF PutYieldReturns
  <2>2. CASE nput = 0 /\ Returns(t, {[at EXCEPT ![t] = "idle"]}) /\ UNCHANGED store
    BY <1>0, <2>1, <2>2, PlainMoves, NoMoreOver DEF Returns, Places, Ops
  <2>3. CASE nput # 0 /\ Store(t, item[t])
    <3>1. Moves(t, "idle") /\ item[t] \in Items \cup {NoItem}
      BY <1>0, <2>3, SignalMoves DEF Store, Returns, Places, TypeOK
    <3>2. \A u \in Threads : op'[u] = "put" /\ at'[u] = "callback" => op[u] = "put" /\ at[u] = "callback"
      BY <1>0, <2>3, <3>1 DEF Store, Returns, Moves, TypeOK
    <3>3. Len(store') = Len(store) + 1
      BY <1>0, <2>3 DEF Store, TypeOK
    <3> QED
      BY <1>0, <2>1, <2>3, <3>2, <3>3, StoreLengths DEF Over
  <2> QED
    BY <1>5, <2>2, <2>3 DEF PutYieldReturns
<1>6. CASE EmptyCallbackReturns(t) \/ GetResumes(t)
  <2>1. UNCHANGED <<max, flags>> /\ nput' \in {0, nput}
    BY <1>6 DEF EmptyCallbackReturns, GetResumes, TakeOffered
  <2>2. CASE TakeStored(t)
    <3>1. Moves(t, "idle")
      BY <1>0, <2>2, TakeStoredMoves
    <3> QED
      BY <2>1, <2>2, <3>1, NoMoreOver DEF TakeStored, Returns, Places, Ops
  <2>3. CASE ReaderWaits(t, timed[t])
    BY <1>0, <2>1, <2>3, PlainMoves, NoMoreOver DEF ReaderWaits, Places, Ops
  <2>4. CASE TakeOffered(t)
    BY <1>0, <2>1, <2>4, PlainMoves, NoMoreOver DEF TakeOffered, Returns, Places, Ops
  <2> QED
    BY <1>6, <2>2, <2>3, <2>4 DEF EmptyCallbackReturns, GetResumes
<1>7. CASE Raise(t)
  BY <1>0, <1>7, PlainMoves, NoMoreOver DEF Raise, Places, Ops
<1> QED
  BY <1>1, <1>2, <1>3, <1>4, <1>5, <1>6, <1>7 DEF Proceed

LEMMA PollingOver == IInv /\ Over /\ [PollingNext]_vars => Over'
<1> SUFFICES ASSUME IInv, Over, [PollingNext]_vars PROVE Over'
  OBVIOUS
<1> USE DEF pool
<1>0. TypeOK /\ \A t \in Threads : op[t] \in Ops /\ op = [op EXCEPT ![t] = op[t]]
  BY DEF IInv, TypeOK
<1>1. ASSUME NEW t \in Threads, Proceed(t) PROVE Over'
  BY <1>1, ProceedOver
<1>2. ASSUME NEW t \in Threads, SpuriousWakeup(t) PROVE Over'
  BY <1>0, <1>2, PlainMoves, NoMoreOver DEF SpuriousWakeup, Places
<1>3. ASSUME NEW t \in Threads, NEW i \in Items, Put(t, i) PROVE Over'
  <2>1. at[t] = "idle" /\ op[t] = "none" /\ UNCHANGED <<max, flags>>
    BY <1>3 DEF Put, IInv, Calls
  <2>2. CASE PutHeldUp(t, i)
    <3>1. PICK p \in {"callback", "leaving"} : /\ at' = [at EXCEPT ![t] = p]
                                               /\ p = "callback" => "full" \in flags
      BY <2>2 DEF PutHeldUp
    <3> QED
      BY <1>0, <2>1, <2>2, <3>1, PlainMoves, NoMoreOver DEF PutHeldUp, Places, Ops
  <2>3. CASE ~Full /\ Deposit(t, i)
    BY <2>1, <2>3, DepositOver
  <2> QED
    BY <1>3, <2>2, <2>3 DEF Put
<1>4. ASSUME NEW t \in Readers, Get(t, TRUE) PROVE Over'
  <2>1. t \in Threads /\ UNCHANGED <<max, flags, nput>>
    BY <1>4, PoolAssumption DEF Get
  <2>2. CASE at' = [at EXCEPT ![t] = "callback"] /\ op' = [op EXCEPT ![t] = "get"] /\ store' = store
    BY <1>0, <2>1, <2>2, PlainMoves, NoMoreOver DEF Places, Ops
  <2>3. CASE TakeStored(t)
    <3>1. Moves(t, "idle")
      BY <1>0, <2>1, <2>3, TakeStoredMoves
    <3> QED
      BY <2>1, <2>3, <3>1, NoMoreOver DEF TakeStored, Returns, Places, Ops
  <2>4. CASE ReaderWaits(t, TRUE)
    BY <1>0, <2>1, <2>4, PlainMoves, NoMoreOver DEF ReaderWaits, Places, Ops
  <2> QED
    BY <1>4, <2>2, <2>3, <2>4 DEF Get
<1>5. CASE UNCHANGED vars
  BY <1>5 DEF vars, Over
<1> QED
  BY <1>1, <1>2, <1>3, <1>4, <1>5 DEF PollingNext

(* Two writers may pass the test of the watermark, one that stores and one whose  *)
(* offer nobody took, but never three: in a program that keeps its maximum and    *)
(* has no on-full callback a pool holds at most one item more than the maximum,   *)
(* for any number of writers.                                                     *)
THEOREM PoolOneOver == PollingSpec => []AtMostOneOver
<1>1. Init => Over
  BY PoolAssumption DEF Init, Over
<1>2. IInv /\ Over => AtMostOneOver
  BY DEF Over, AtMostOneOver
<1>3. [PollingNext]_vars => [Next]_vars
  BY PoolAssumption DEF PollingNext, Next
<1> QED
  BY <1>1, <1>2, <1>3, InitHolds, StepKeeps, PollingOver, PTL DEF PollingSpec

-----------------------------------------------------------------------------
(* The refinement: a pool hands over what is put into it, in order and once,    *)
(* provided that no put is made from inside a coroutine and no writer is         *)
(* interrupted: if one is, a reader can pop a stack that does not hold the data, *)
(* and GetBringsData fails.  The readers may be interrupted at any time.         *)

Undisturbed == CoWriters = {} /\ Interruptible \cap Writers = {}

Calm == \A t \in Threads : /\ op[t] = "put" => t \in Writers
                           /\ interrupted[t] => t \in Interruptible

(* The data of a put under way are neither in the storage nor another put's.   *)
Apart == /\ \A t \in Threads : item[t] # NoItem =>
              op[t] = "put" /\ item[t] \notin Range(store)
         /\ \A t, u \in Threads : item[t] = item[u] /\ t # u => item[t] = NoItem

(* dp->td is the writer that yields; nput says whether it still has its data.  *)
Offers == /\ writer \in Threads => (nput # 0 <=> item[writer] # NoItem)
          /\ \A t \in Threads : at[t] = "yield" <=> writer = t

Kept == Calm /\ Apart /\ Offers /\ GetBringsData

RInv == IInv /\ Kept

Step == Kept' /\ [Pool!Next]_(Pool!vars)

Excused == {t \in Threads : at[t] = "callback" \/ interrupted[t]}

(* Whom ItemPool excuses is an input of it: any change of the data will do.    *)
LEMMA Happens ==
  ASSUME \/ \E t \in Threads, i \in Items : Pool!Offer(t, i) \/ Pool!Accept(t, i)
         \/ \E t \in Threads : Pool!Withdraw(t) \/ Pool!TakeOldest(t) \/ Pool!TakeNothing(t)
         \/ \E t, u \in Threads : Pool!TakeOffered(t, u)
         \/ UNCHANGED <<item, store, result>>
  PROVE  [Pool!Next]_(Pool!vars)
<1>1. Excused' \subseteq Threads
  BY DEF Excused
<1> QED
  BY <1>1 DEF Pool!Next, Excused

-----------------------------------------------------------------------------
(* What an operation does to the storage and to the data at hand.              *)

LEMMA StorageFollows ==
  ASSUME store \in Seq(Items), NEW i \in Items
  PROVE  /\ Range(Append(store, i)) = Range(store) \cup {i}
         /\ store # <<>> => Range(Tail(store)) \subseteq Range(store)
                            /\ Head(store) \in Items
<1>1. Range(Append(store, i)) = Range(store) \cup {i}
  <2>1. DOMAIN Append(store, i) = DOMAIN store \cup {Len(store) + 1}
    OBVIOUS
  <2>2. /\ \A k \in DOMAIN store : Append(store, i)[k] = store[k]
        /\ Append(store, i)[Len(store) + 1] = i
    OBVIOUS
  <2> QED
    BY <2>1, <2>2 DEF Range
<1>2. store # <<>> => Range(Tail(store)) \subseteq Range(store)
  <2> SUFFICES ASSUME store # <<>>, NEW k \in DOMAIN Tail(store)
               PROVE  Tail(store)[k] \in Range(store)
    BY DEF Range
  <2>1. k + 1 \in DOMAIN store /\ Tail(store)[k] = store[k + 1]
    OBVIOUS
  <2> QED
    BY <2>1 DEF Range
<1>3. store # <<>> => Head(store) \in Items
  OBVIOUS
<1> QED
  BY <1>1, <1>2, <1>3

LEMMA ItemsFollow ==
  ASSUME TypeOK, NEW t \in Threads, NEW i \in Items \cup {NoItem},
         item' = [item EXCEPT ![t] = i]
  PROVE  /\ item'[t] = i
         /\ \A u \in Threads \ {t} : item'[u] = item[u]
BY DEF TypeOK

(* A step of thread t that touches no offer keeps the offers in order.         *)
LEMMA OffersKept ==
  ASSUME Offers, NEW t \in Threads, NEW p \in Places \ {"yield"}, Moves(t, p),
         at[t] # "yield", UNCHANGED <<nput, writer>>,
         \A u \in Threads \ {t} : item'[u] = item[u]
  PROVE  Offers'
BY DEF Offers, Moves

LEMMA CalmKept ==
  ASSUME TypeOK, Calm, NEW t \in Threads, NEW o \in Ops, op' = [op EXCEPT ![t] = o],
         o = "put" => t \in Writers, UNCHANGED interrupted
  PROVE  Calm' /\ op'[t] = o /\ \A u \in Threads \ {t} : op'[u] = op[u]
BY DEF TypeOK, Calm

-----------------------------------------------------------------------------
(* The parts of put. *)

(* A put has the data it came with, or those it was called with just now.      *)
AtHand(t, i) == i = item[t] \/ (item[t] = NoItem /\ i \notin Present)

LEMMA AtHandComes ==
  ASSUME TypeOK, NEW t \in Threads, NEW i \in Items, AtHand(t, i)
  PROVE  item[t] = i \/ Pool!Comes(t, i)
<1>1. Range(item) = {item[u] : u \in Threads}
  BY DEF TypeOK, Range
<1> QED
  BY <1>1 DEF AtHand, Present, Pool!Comes, Pool!Inside, Pool!Range, Range

LEMMA StoreRefines ==
  ASSUME RInv, NEW t \in Writers, NEW i \in Items, AtHand(t, i),
         Store(t, i), UNCHANGED <<result, interrupted>>,
         \/ UNCHANGED <<nput, writer>> /\ at[t] # "yield"
         \/ nput' = 0 /\ writer' = NoThread /\ writer = t
  PROVE  Step
<1>0. t \in Threads /\ TypeOK /\ NoItem \notin Items /\ NoThread \notin Threads
  BY PoolAssumption DEF RInv, IInv
<1>1. Moves(t, "idle")
  BY <1>0, SignalMoves DEF Store, Returns, Places
<1>2. /\ item'[t] = NoItem /\ \A u \in Threads \ {t} : item'[u] = item[u]
  BY <1>0, ItemsFollow DEF Store
<1>3. /\ \A u \in Threads \ {t} : item[u] # i
      /\ i \notin Range(store)
  BY <1>0, <1>2 DEF AtHand, RInv, Kept, Apart, Present
<1>4. Calm' /\ \A u \in Threads \ {t} : op'[u] = op[u]
  BY <1>0, CalmKept DEF Store, Returns, RInv, Kept, Ops
<1>5. Range(store') = Range(store) \cup {i}
  BY <1>0, StorageFollows DEF Store, TypeOK
<1>6. Apart'
  BY <1>2, <1>3, <1>4, <1>5 DEF RInv, Kept, Apart
<1>7. Offers'
  <2>1. CASE UNCHANGED <<nput, writer>> /\ at[t] # "yield"
    BY <1>0, <1>1, <1>2, <2>1, OffersKept DEF RInv, Kept, Places
  <2>2. CASE nput' = 0 /\ writer' = NoThread /\ writer = t
    BY <1>0, <1>1, <2>2 DEF RInv, Kept, Offers, Moves
  <2> QED
    BY <2>1, <2>2
<1>8. item[t] = i \/ Pool!Comes(t, i)
  BY <1>0, AtHandComes
<1>9. Pool!Accept(t, i)
  BY <1>8 DEF Pool!Accept, Store
<1>10. [Pool!Next]_(Pool!vars)
  BY <1>0, <1>9, Happens
<1> QED
  BY <1>4, <1>6, <1>7, <1>10 DEF Step, RInv, Kept, GetBringsData

(* A put that waits, or hands over, has its data at hand from then on.         *)
LEMMA HoldRefines ==
  ASSUME RInv, NEW t \in Writers, NEW i \in Items, AtHand(t, i),
         item' = [item EXCEPT ![t] = i], op' = [op EXCEPT ![t] = "put"],
         UNCHANGED <<store, result, interrupted>>
  PROVE  /\ Calm' /\ Apart' /\ GetBringsData' /\ [Pool!Next]_(Pool!vars)
         /\ item'[t] = i /\ \A u \in Threads \ {t} : item'[u] = item[u]
<1>0. t \in Threads /\ TypeOK /\ NoItem \notin Items
  BY PoolAssumption DEF RInv, IInv
<1>1. item'[t] = i /\ \A u \in Threads \ {t} : item'[u] = item[u]
  BY <1>0, ItemsFollow
<1>2. /\ \A u \in Threads \ {t} : item[u] # i
      /\ i \notin Range(store)
  BY <1>0 DEF AtHand, RInv, Kept, Apart, Present
<1>3. Calm' /\ op'[t] = "put" /\ \A u \in Threads \ {t} : op'[u] = op[u]
  BY <1>0, CalmKept DEF RInv, Kept, Ops
<1>4. Apart'
  BY <1>1, <1>2, <1>3 DEF RInv, Kept, Apart
<1>5. [Pool!Next]_(Pool!vars)
  <2>1. CASE i = item[t]
    <3>1. item' = item
      BY <1>0, <2>1 DEF TypeOK
    <3> QED
      BY <3>1, Happens
  <2>2. CASE Pool!Comes(t, i)
    <3>1. Pool!Offer(t, i)
      BY <2>2 DEF Pool!Offer
    <3> QED
      BY <1>0, <3>1, Happens
  <2> QED
    BY <1>0, <2>1, <2>2, AtHandComes
<1> QED
  BY <1>1, <1>3, <1>4, <1>5 DEF RInv, Kept, GetBringsData

LEMMA DepositRefines ==
  ASSUME RInv, NEW t \in Writers, NEW i \in Items, AtHand(t, i), at[t] # "yield",
         Deposit(t, i), UNCHANGED <<result, interrupted>>
  PROVE  Step
<1>0. t \in Threads /\ TypeOK /\ NoItem \notin Items /\ NoThread \notin Threads
  BY PoolAssumption DEF RInv, IInv
<1>1. CASE HandOff(t, i)
  <2>1. Moves(t, "yield")
    BY <1>0, <1>1, SignalMoves DEF HandOff, Places
  <2>2. /\ Calm' /\ Apart' /\ GetBringsData' /\ [Pool!Next]_(Pool!vars)
        /\ item'[t] = i
    BY <1>1, HoldRefines DEF HandOff
  <2>3. Offers'
    BY <1>0, <1>1, <2>1, <2>2 DEF HandOff, RInv, Kept, Offers, Moves
  <2> QED
    BY <2>2, <2>3 DEF Step, Kept
<1>2. CASE Store(t, i) /\ UNCHANGED <<nput, writer>>
  BY <1>2, StoreRefines
<1> QED
  BY <1>1, <1>2 DEF Deposit

(* The on-full callback swallows the data.                                     *)
LEMMA DropRefines ==
  ASSUME RInv, NEW t \in Threads, FullCallbackDrops(t)
  PROVE  Step
<1> USE DEF pool
<1>0. /\ TypeOK /\ NoItem \notin Items /\ item[t] \in Items /\ at[t] # "yield"
  BY PoolAssumption DEF RInv, IInv, Held, FullCallbackDrops
<1>1. Moves(t, "idle")
  BY <1>0, PlainMoves DEF FullCallbackDrops, Returns, Places
<1>2. item'[t] = NoItem /\ \A u \in Threads \ {t} : item'[u] = item[u]
  BY <1>0, ItemsFollow DEF FullCallbackDrops
<1>3. Calm' /\ \A u \in Threads \ {t} : op'[u] = op[u]
  BY <1>0, CalmKept DEF FullCallbackDrops, Returns, RInv, Kept, Ops
<1>4. Apart'
  BY <1>2, <1>3 DEF FullCallbackDrops, RInv, Kept, Apart
<1>5. Offers'
  BY <1>0, <1>1, <1>2, OffersKept DEF FullCallbackDrops, RInv, Kept, Places
<1>6. GetBringsData'
  BY DEF FullCallbackDrops, RInv, Kept, GetBringsData
<1>7. Pool!Withdraw(t)
  BY DEF Pool!Withdraw, FullCallbackDrops
<1>8. [Pool!Next]_(Pool!vars)
  BY <1>7, Happens
<1> QED
  BY <1>3, <1>4, <1>5, <1>6, <1>8 DEF Step, Kept

(* The reader was faster: the data of the yielding writer are gone.            *)
LEMMA GoneRefines ==
  ASSUME RInv, NEW t \in Threads, op[t] = "put", at[t] = "yield", nput = 0,
         writer' = NoThread, nput' = 0, Returns(t, {[at EXCEPT ![t] = "idle"]}),
         item' = [item EXCEPT ![t] = NoItem], UNCHANGED <<store, result, interrupted>>
  PROVE  Step
<1>0. TypeOK /\ NoThread \notin Threads
  BY PoolAssumption DEF RInv, IInv
<1>1. Moves(t, "idle")
  BY <1>0, PlainMoves DEF Returns, Places
<1>2. item[t] = NoItem /\ item' = item
  BY <1>0 DEF RInv, Kept, Offers, TypeOK
<1>3. Calm' /\ \A u \in Threads \ {t} : op'[u] = op[u]
  BY <1>0, CalmKept DEF Returns, RInv, Kept, Ops
<1>4. Apart'
  BY <1>2, <1>3 DEF RInv, Kept, Apart
<1>5. Offers'
  BY <1>0, <1>1 DEF RInv, Kept, Offers, Moves
<1>6. [Pool!Next]_(Pool!vars)
  BY <1>2, Happens
<1> QED
  BY <1>2, <1>3, <1>4, <1>5, <1>6 DEF Step, RInv, Kept, GetBringsData

-----------------------------------------------------------------------------
(* The parts of get, and the steps that move no data.                          *)

LEMMA TakeStoredRefines ==
  ASSUME RInv, NEW t \in Threads, op[t] # "put", at[t] # "yield", TakeStored(t),
         UNCHANGED <<nput, writer, item, interrupted>>
  PROVE  Step
<1>0. /\ TypeOK /\ store \in Seq(Items)
      /\ Garbage \notin Items
  BY PoolAssumption DEF RInv, IInv, TypeOK
<1>1. Moves(t, "idle")
  <2>1. CASE at' \in Signalled([at EXCEPT ![t] = "idle"])
    BY <1>0, <2>1, SignalMoves DEF Places
  <2>2. CASE at' = [at EXCEPT ![t] = "idle"]
    BY <1>0, <2>2, PlainMoves DEF Places
  <2> QED
    BY <2>1, <2>2 DEF TakeStored, Returns
<1>2. Calm' /\ \A u \in Threads \ {t} : op'[u] = op[u]
  BY <1>0, CalmKept DEF TakeStored, Returns, RInv, Kept, Ops
<1>3. Head(store) \in Items /\ Range(store') \subseteq Range(store)
  BY <1>0, StorageFollows DEF TakeStored
<1>4. Apart'
  BY <1>2, <1>3 DEF RInv, Kept, Apart
<1>5. Offers'
  BY <1>1, OffersKept DEF RInv, Kept, Places
<1>6. GetBringsData'
  BY <1>0, <1>3 DEF TakeStored, RInv, Kept, GetBringsData, TypeOK
<1>7. Pool!TakeOldest(t)
  BY DEF Pool!TakeOldest, TakeStored
<1>8. [Pool!Next]_(Pool!vars)
  BY <1>7, Happens
<1> QED
  BY <1>2, <1>4, <1>5, <1>6, <1>8 DEF Step, Kept

(* A step that moves no data, except that a get may end with nothing.          *)
LEMMA MoveRefines ==
  ASSUME RInv, NEW t \in Threads, NEW p \in Places \ {"yield"}, NEW o \in Ops,
         at[t] # "yield", at' = [at EXCEPT ![t] = p], op' = [op EXCEPT ![t] = o],
         o = "put" <=> op[t] = "put",
         result' \in {result, [result EXCEPT ![t] = NoItem]},
         UNCHANGED <<store, nput, writer, item, interrupted>>
  PROVE  Step
<1>0. TypeOK /\ Garbage # NoItem
  BY PoolAssumption DEF RInv, IInv
<1>1. Moves(t, p)
  BY <1>0, PlainMoves
<1>2. Calm' /\ op'[t] = o /\ \A u \in Threads \ {t} : op'[u] = op[u]
  BY <1>0, CalmKept DEF RInv, Kept, Calm
<1>3. Apart'
  BY <1>2 DEF RInv, Kept, Apart
<1>4. Offers'
  BY <1>1, OffersKept DEF RInv, Kept
<1>5. GetBringsData'
  BY <1>0 DEF RInv, Kept, GetBringsData, TypeOK
<1>6. [Pool!Next]_(Pool!vars)
  <2>1. CASE result' = result
    BY <2>1, Happens
  <2>2. CASE result' = [result EXCEPT ![t] = NoItem]
    <3>1. Pool!TakeNothing(t)
      BY <2>2 DEF Pool!TakeNothing
    <3> QED
      BY <3>1, Happens
  <2> QED
    BY <2>1, <2>2
<1> QED
  BY <1>2, <1>3, <1>4, <1>5, <1>6 DEF Step, Kept

(* What lua_xmove pops are the data of the writer that yields.                 *)
LEMMA TakeOfferedRefines ==
  ASSUME Undisturbed, RInv, NEW t \in Threads, op[t] = "get", at[t] = "woken",
         TakeOffered(t), UNCHANGED <<writer, interrupted>>
  PROVE  Step
<1>0. /\ TypeOK /\ NoItem \notin Items /\ Garbage \notin Items
      /\ writer \in Threads
  BY PoolAssumption DEF TakeOffered, RInv, IInv, Held
<1>1. item[writer] \in Items /\ at[writer] = "yield"
  BY <1>0 DEF TakeOffered, RInv, Kept, Offers, TypeOK
<1>2. StackTop(writer) = item[writer]
  BY <1>0, <1>1 DEF StackTop, Undisturbed
<1>3. /\ item' = [item EXCEPT ![writer] = NoItem]
      /\ result' = [result EXCEPT ![t] = item[writer]]
  BY <1>0, <1>2 DEF TakeOffered, TypeOK
<1>4. /\ item'[writer] = NoItem
      /\ \A u \in Threads \ {writer} : item'[u] = item[u]
  BY <1>0, <1>3, ItemsFollow
<1>5. Moves(t, "idle")
  BY <1>0, PlainMoves DEF TakeOffered, Returns, Places
<1>6. Calm' /\ \A u \in Threads \ {t} : op'[u] = op[u]
  BY <1>0, CalmKept DEF TakeOffered, Returns, RInv, Kept, Ops
<1>7. Apart'
  <2>1. item[t] = NoItem
    BY DEF RInv, Kept, Apart
  <2> QED
    BY <1>4, <1>6, <2>1 DEF TakeOffered, RInv, Kept, Apart
<1>8. Offers'
  BY <1>4, <1>5 DEF TakeOffered, RInv, Kept, Offers, Moves
<1>9. GetBringsData'
  BY <1>0, <1>1, <1>3 DEF RInv, Kept, GetBringsData, TypeOK
<1>10. Pool!TakeOffered(t, writer)
  BY <1>0, <1>1, <1>3 DEF Pool!TakeOffered, TakeOffered
<1>11. [Pool!Next]_(Pool!vars)
  BY <1>0, <1>10, Happens
<1> QED
  BY <1>6, <1>7, <1>8, <1>9, <1>11 DEF Step, Kept

-----------------------------------------------------------------------------
(* Every step.                                                                 *)

LEMMA ProceedRefines ==
  ASSUME Undisturbed, RInv, NEW t \in Threads, Proceed(t)
  PROVE  Step
<1> USE DEF pool
<1>0. /\ TypeOK /\ op[t] \in Ops /\ [op EXCEPT ![t] = op[t]] = op
      /\ op[t] = "put" => t \in Writers
      /\ op[t] = "put" /\ at[t] # "yield" => item[t] \in Items
      /\ at[t] \in {"yield", "leaving", "waiting", "woken", "timedout"} => op[t] # "none"
      /\ at[t] = "yield" => op[t] = "put" /\ writer = t
      /\ AtHand(t, item[t])
  BY DEF RInv, IInv, Kept, Calm, TypeOK, Calls, Held, AtHand
<1>1. CASE CondWait(t)
  BY <1>0, <1>1, MoveRefines DEF CondWait, Places
<1>2. CASE WaitTimesOut(t)
  BY <1>0, <1>2, MoveRefines DEF WaitTimesOut, Places
<1>3. CASE FullCallbackKeeps(t)
  BY <1>0, <1>3, DepositRefines DEF FullCallbackKeeps
<1>4. CASE FullCallbackDrops(t)
  BY <1>4, DropRefines
<1>5. CASE PutResumes(t)
  <2>1. at[t] \in {"woken", "timedout"} /\ op[t] = "put"
    BY <1>5 DEF PutResumes, Resumable
  <2>2. CASE Full /\ at' = [at EXCEPT ![t] = "leaving"]
                  /\ UNCHANGED <<store, nput, writer, op, item, timed>>
    BY <1>0, <1>5, <2>1, <2>2, MoveRefines DEF PutResumes, Places
  <2>3. CASE Deposit(t, item[t])
    BY <1>0, <1>5, <2>1, <2>3, DepositRefines DEF PutResumes
  <2> QED
    BY <1>5, <2>2, <2>3 DEF PutResumes
<1>6. CASE PutYieldReturns(t)
  <2>1. CASE nput = 0
    BY <1>6, <2>1, GoneRefines DEF PutYieldReturns
  <2>2. CASE nput # 0
    <3>1. item[t] \in Items /\ t \in Writers /\ writer = t
      BY <1>0, <1>6, <2>2 DEF PutYieldReturns, RInv, IInv, Held
    <3> QED
      BY <1>0, <1>6, <2>2, <3>1, StoreRefines DEF PutYieldReturns
  <2> QED
    BY <2>1, <2>2
<1>7. CASE EmptyCallbackReturns(t)
  <2>1. CASE TakeStored(t)
    BY <1>7, <2>1, TakeStoredRefines DEF EmptyCallbackReturns
  <2>2. CASE ReaderWaits(t, timed[t])
    BY <1>0, <1>7, <2>2, MoveRefines DEF EmptyCallbackReturns, ReaderWaits, Places, Ops
  <2> QED
    BY <1>7, <2>1, <2>2 DEF EmptyCallbackReturns
<1>8. CASE EmptyCallbackAnswers(t)
  BY <1>0, <1>8, MoveRefines DEF EmptyCallbackAnswers, Returns, Places, Ops
<1>9. CASE GetTimesOut(t)
  BY <1>0, <1>9, MoveRefines DEF GetTimesOut, Returns, Places, Ops
<1>10. CASE GetResumes(t)
  <2>1. CASE TakeOffered(t)
    BY <1>10, <2>1, TakeOfferedRefines DEF GetResumes
  <2>2. CASE TakeStored(t) /\ UNCHANGED <<nput, item>>
    BY <1>10, <2>2, TakeStoredRefines DEF GetResumes
  <2>3. CASE ReaderWaits(t, timed[t]) /\ UNCHANGED <<nput, item>>
    BY <1>0, <1>10, <2>3, MoveRefines DEF GetResumes, ReaderWaits, Places, Ops
  <2> QED
    BY <1>10, <2>1, <2>2, <2>3 DEF GetResumes
<1>11. CASE WaitReturns(t)
  BY <1>0, <1>11, MoveRefines DEF WaitReturns, Resumable, Returns, Places, Ops
<1>12. CASE Raise(t)
  <2>1. op[t] # "put"
    BY <1>0, <1>12 DEF Raise, Undisturbed, RInv, Kept, Calm
  <2>2. item[t] = NoItem /\ at[t] # "yield"
    BY <1>0, <2>1 DEF RInv, Kept, Apart
  <2>3. item' = item
    BY <1>0, <1>12, <2>2 DEF Raise, TypeOK
  <2> QED
    BY <1>0, <1>12, <2>1, <2>2, <2>3, MoveRefines DEF Raise, Places, Ops
<1> QED
  BY <1>1, <1>2, <1>3, <1>4, <1>5, <1>6, <1>7, <1>8, <1>9, <1>10, <1>11, <1>12
  DEF Proceed

LEMMA PutRefines ==
  ASSUME RInv, NEW t \in Threads, NEW i \in Items, Put(t, i)
  PROVE  Step
<1>0. at[t] = "idle" /\ t \in Writers /\ UNCHANGED <<result, interrupted>>
  BY DEF Put
<1>1. op[t] = "none"
  BY <1>0 DEF RInv, IInv, Calls
<1>2. item[t] = NoItem
  BY <1>1 DEF RInv, Kept, Apart
<1>3. AtHand(t, i)
  BY <1>2 DEF Put, AtHand
<1>4. CASE PutHeldUp(t, i)
  <2>1. PICK p \in {"callback", "leaving"} : at' = [at EXCEPT ![t] = p]
    BY <1>4 DEF PutHeldUp
  <2>2. Moves(t, p)
    BY <2>1, PlainMoves DEF RInv, IInv, Places
  <2>3. /\ Calm' /\ Apart' /\ GetBringsData' /\ [Pool!Next]_(Pool!vars)
        /\ \A u \in Threads \ {t} : item'[u] = item[u]
    BY <1>0, <1>3, <1>4, HoldRefines DEF PutHeldUp
  <2>4. Offers'
    BY <1>0, <1>4, <2>2, <2>3, OffersKept DEF PutHeldUp, RInv, Kept, Places
  <2> QED
    BY <2>3, <2>4 DEF Step, Kept
<1>5. CASE Deposit(t, i)
  BY <1>0, <1>3, <1>5, DepositRefines
<1> QED
  BY <1>4, <1>5 DEF Put

LEMMA GetRefines ==
  ASSUME RInv, NEW t \in Threads, NEW timeout \in BOOLEAN, Get(t, timeout)
  PROVE  Step
<1>0. /\ at[t] = "idle" /\ op[t] = "none"
      /\ UNCHANGED <<nput, writer, item, interrupted>>
  BY DEF Get, RInv, IInv, Calls
<1>1. CASE TakeStored(t)
  BY <1>0, <1>1, TakeStoredRefines
<1>2. CASE ReaderWaits(t, timeout)
  BY <1>0, <1>2, MoveRefines DEF ReaderWaits, Places, Ops
<1>3. CASE /\ op' = [op EXCEPT ![t] = "get"]
           /\ at' = [at EXCEPT ![t] = "callback"]
           /\ UNCHANGED <<store, result>>
  BY <1>0, <1>3, MoveRefines DEF Places, Ops
<1> QED
  BY <1>1, <1>2, <1>3 DEF Get

LEMMA NextRefines ==
  ASSUME Undisturbed, RInv, [Next]_vars
  PROVE  Step
<1> USE DEF pool
<1>1. ASSUME NEW t \in Threads, Proceed(t) PROVE Step
  BY <1>1, ProceedRefines
<1>2. ASSUME NEW t \in Threads, SpuriousWakeup(t) PROVE Step
  <2>1. op[t] \in Ops /\ op' = [op EXCEPT ![t] = op[t]]
    BY <1>2 DEF SpuriousWakeup, RInv, IInv, TypeOK
  <2> QED
    BY <1>2, <2>1, MoveRefines DEF SpuriousWakeup, Places
<1>3. ASSUME NEW t \in Threads, NEW i \in Items, Put(t, i) PROVE Step
  BY <1>3, PutRefines
<1>4. ASSUME NEW t \in Threads, NEW timeout \in BOOLEAN, Get(t, timeout) PROVE Step
  BY <1>4, GetRefines
<1>5. ASSUME NEW t \in Threads, NEW timeout \in BOOLEAN, Wait(t, timeout) PROVE Step
  <2>1. op[t] = "none"
    BY <1>5 DEF Wait, RInv, IInv, Calls
  <2> QED
    BY <1>5, <2>1, MoveRefines DEF Wait, Places, Ops
<1>6. ASSUME UNCHANGED <<store, nput, writer, op, at, item, result>>,
             \A t \in Threads : interrupted'[t] => interrupted[t] \/ t \in Interruptible
      PROVE  Step
  <2>1. Calm' /\ Apart' /\ Offers' /\ GetBringsData'
    BY <1>6 DEF RInv, Kept, Calm, Apart, Offers, GetBringsData
  <2>2. [Pool!Next]_(Pool!vars)
    BY <1>6, Happens
  <2> QED
    BY <2>1, <2>2 DEF Step, Kept
<1>7. ASSUME NEW m \in Marks, SetMax(m) PROVE Step
  BY <1>6, <1>7 DEF SetMax
<1>8. ASSUME NEW f \in CallbackSets, SetCallbacks(f) PROVE Step
  BY <1>6, <1>8 DEF SetCallbacks
<1>9. ASSUME NEW t \in Interruptible, Interrupt(t) PROVE Step
  <2>1. \A u \in Threads : interrupted'[u] => interrupted[u] \/ u \in Interruptible
    BY <1>9 DEF Interrupt, RInv, IInv, TypeOK
  <2> QED
    BY <1>6, <1>9, <2>1 DEF Interrupt
<1>10. CASE UNCHANGED vars
  BY <1>6, <1>10 DEF vars
<1> QED
  BY <1>1, <1>2, <1>3, <1>4, <1>5, <1>7, <1>8, <1>9, <1>10 DEF Next

LEMMA InitRefines == Init => RInv /\ Pool!Init
<1> SUFFICES ASSUME Init PROVE RInv /\ Pool!Init
  OBVIOUS
<1>1. IInv
  BY InitHolds
<1>2. Calm /\ Apart /\ Offers
  BY PoolAssumption DEF Init, Calm, Apart, Offers
<1>3. GetBringsData
  BY PoolAssumption DEF Init, GetBringsData
<1>4. Pool!Init
  <2>1. {t \in Threads : at[t] = "callback" \/ interrupted[t]} = {}
    BY DEF Init
  <2> QED
    BY <2>1 DEF Init, Pool!Init
<1> QED
  BY <1>1, <1>2, <1>3, <1>4 DEF RInv, Kept

-----------------------------------------------------------------------------
(* The theorems, for any threads, items, watermarks and callbacks.             *)

LEMMA PoolKeeps == ASSUME Undisturbed PROVE Spec => []RInv
<1>1. Init => RInv
  BY InitRefines
<1>2. RInv /\ [Next]_vars => RInv'
  <2> SUFFICES ASSUME RInv, [Next]_vars PROVE RInv'
    OBVIOUS
  <2>1. Step
    BY NextRefines
  <2>2. IInv'
    BY StepKeeps DEF RInv
  <2> QED
    BY <2>1, <2>2 DEF Step, RInv
<1> QED
  BY <1>1, <1>2, PTL DEF Spec

(* The data pool implements ItemPool: through hand-offs, waits, lost, stolen    *)
(* and spurious wake-ups, timeouts and interrupted readers a put that returns   *)
(* has passed its item on, once, to the storage or to a reader, unless the      *)
(* on-full callback swallowed it; stored items are read in their order, and     *)
(* an item handed over is read before them.                                     *)
THEOREM PoolIsDelivered == ASSUME Undisturbed PROVE Spec => ImplementsItemPool
<1>1. Init => Pool!Init
  BY InitRefines
<1>2. RInv /\ [Next]_vars => [Pool!Next]_(Pool!vars)
  BY NextRefines DEF Step
<1> QED
  BY <1>1, <1>2, PoolKeeps, PTL DEF Spec, ImplementsItemPool, Pool!Spec

(* No get pops a stack that does not hold the data of a put (thread_dpool.c,   *)
(* lua_xmove from dp->td->L).                                                  *)
THEOREM PoolBringsData == ASSUME Undisturbed PROVE Spec => []GetBringsData
<1>1. RInv => GetBringsData
  BY DEF RInv, Kept
<1> QED
  BY <1>1, PoolKeeps, PTL

(* An open offer is that of the one writer that yields inside put.             *)
THEOREM PoolOfferHasItsWriter == ASSUME Undisturbed PROVE Spec => []OfferHasItsWriter
<1>1. RInv => OfferHasItsWriter
  BY PoolAssumption
  DEF RInv, IInv, Kept, Offers, OfferHasItsWriter, Calls, Held
<1> QED
  BY <1>1, PoolKeeps, PTL

-----------------------------------------------------------------------------
(* The table in which a pool keeps its items (PoolStorage).  The cells between  *)
(* the indexes are always the tuples of some queue, laid one behind the other   *)
(* (StorageSound); that the walk of PoolStorage finds just this queue is shown  *)
(* by the least cell count for which it would not.                              *)

(* One step of the walk through table c, used up to t, from behind cell i. *)
Ends(c, t, i) == i >= t \/ c[i + 1] \notin 1 .. MaxItems \/ i + 1 + c[i + 1] > t
Following(c, i) == i + 1 + c[i + 1]
First(c, i) == Reverse(SubSeq(c, i + 2, Following(c, i)))
Rest(f, c, t, i) == IF Ends(c, t, i) THEN <<>> ELSE <<First(c, i)>> \o f[Following(c, i)]

Walk(c, t) == CHOOSE f : f = [i \in 0 .. MaxCells |-> Rest(f, c, t, i)]

(* f is the walk for the last k + 1 of the places where it can start. *)
Walks(f, c, t, k) == f = [i \in MaxCells - k .. MaxCells |-> Rest(f, c, t, i)]

LEMMA WalkGoesOn ==
  ASSUME NEW c, NEW t \in 0 .. MaxCells, NEW k \in 0 .. MaxCells - 1,
         NEW f, Walks(f, c, t, k)
  PROVE  \E g : Walks(g, c, t, k + 1)
<1> DEFINE S == MaxCells - k .. MaxCells
           R == MaxCells - (k + 1) .. MaxCells
           s == MaxCells - (k + 1)
           b(i) == Rest(f, c, t, i)
           g == [i \in R |-> b(i)]
<1>1. MaxCells \in Nat /\ k \in Nat /\ k + 1 <= MaxCells /\ t \in Nat /\ t <= MaxCells
  BY StorageAssumption
<1>2. f = [i \in S |-> b(i)]
  BY DEF Walks
<1>3. R = S \cup {s} /\ s \notin S
  BY <1>1
<1>4. \A i \in S : g[i] = f[i]
  BY <1>2, <1>3
<1>5. \A i \in R : ~Ends(c, t, i) => Following(c, i) \in S
  <2> SUFFICES ASSUME NEW i \in R, ~Ends(c, t, i) PROVE Following(c, i) \in S
    OBVIOUS
  <2>1. c[i + 1] \in 1 .. MaxItems /\ ~(i + 1 + c[i + 1] > t)
    BY DEF Ends
  <2>2. MaxItems \in Nat
    BY StorageAssumption
  <2> QED
    BY <1>1, <2>1, <2>2 DEF Following
<1>6. g = [i \in R |-> Rest(g, c, t, i)]
  BY <1>4, <1>5 DEF Rest
<1> HIDE DEF g
<1> QED
  BY <1>6 DEF Walks

LEMMA WalkExists ==
  ASSUME NEW c, NEW t \in 0 .. MaxCells
  PROVE  \E f : Walks(f, c, t, MaxCells)
<1> DEFINE bad == {k \in 0 .. MaxCells : ~ \E f : Walks(f, c, t, k)}
<1>1. MaxCells \in Nat
  BY StorageAssumption
<1>2. \E f : Walks(f, c, t, 0)
  <2> DEFINE f == [i \in {MaxCells} |-> <<>>]
  <2>1. MaxCells - 0 .. MaxCells = {MaxCells}
    BY <1>1
  <2>2. Ends(c, t, MaxCells)
    BY <1>1 DEF Ends
  <2>3. f = [i \in {MaxCells} |-> Rest(f, c, t, i)]
    BY <2>2 DEF Rest
  <2> HIDE DEF f
  <2>4. Walks(f, c, t, 0)
    BY <2>1, <2>3 DEF Walks
  <2> QED
    BY <2>4
<1>3. ASSUME bad # {} PROVE FALSE
  <2>1. bad \in SUBSET Nat
    BY <1>1
  <2>2. PICK k \in bad : \A x \in bad : k <= x
    BY <1>3, <2>1, LeastExists
  <2>3. k # 0
    BY <1>2
  <2>4. k - 1 \in 0 .. MaxCells - 1 /\ k - 1 \notin bad /\ k - 1 \in 0 .. MaxCells /\ k = (k - 1) + 1
    BY <1>1, <2>2, <2>3
  <2>5. \E f : Walks(f, c, t, k - 1)
    BY <2>4
  <2>6. \E g : Walks(g, c, t, (k - 1) + 1)
    BY <2>4, <2>5, WalkGoesOn
  <2> QED
    BY <2>2, <2>4, <2>6
<1>4. MaxCells \in 0 .. MaxCells
  BY <1>1
<1> QED
  BY <1>3, <1>4

LEMMA WalkIs ==
  ASSUME NEW c, NEW t \in 0 .. MaxCells
  PROVE  \A i \in 0 .. MaxCells : Walk(c, t)[i] = Rest(Walk(c, t), c, t, i)
<1> DEFINE W(f) == f = [i \in 0 .. MaxCells |-> Rest(f, c, t, i)]
<1>1. \E f : W(f)
  <2>1. MaxCells - MaxCells = 0
    BY StorageAssumption
  <2>2. PICK f : Walks(f, c, t, MaxCells)
    BY WalkExists
  <2>3. W(f)
    BY <2>1, <2>2 DEF Walks
  <2> QED
    BY <2>3
<1>2. Walk(c, t) = CHOOSE f : W(f)
  BY DEF Walk
<1>3. W(Walk(c, t))
  BY <1>1, <1>2
<1> QED
  BY <1>3

(* It is the recursive function of the module. *)
LEMMA TuplesFromIs == TuplesFrom = Walk(cell, top)
BY DEF TuplesFrom, Walk, Rest, Ends, First, Following

(* The tuple s lies in table c behind cell a, its count first, its values from last to first. *)
Lies(c, s, a) == /\ c[a + 1] = Len(s)
                 /\ \A j \in 1 .. Len(s) : c[a + 2 + Len(s) - j] = s[j]

(* The tuples of q lie in c one behind the other, the k-th up to p[k], from a to t. *)
Laid(c, a, t, q, p) ==
  /\ q \in Seq(Tuples) /\ p \in [0 .. Len(q) -> Nat]
  /\ p[0] = a /\ p[Len(q)] = t
  /\ \A j, k \in 0 .. Len(q) : j < k => p[j] < p[k]
  /\ \A k \in 1 .. Len(q) : p[k] = p[k - 1] + 1 + Len(q[k]) /\ Lies(c, q[k], p[k - 1])

StorageSound ==
  /\ idx \in 0 .. MaxCells /\ top \in 0 .. MaxCells
  /\ NothingLeftBehind
  /\ \E q, p : Laid(cell, idx, top, q, p) /\ n = Len(q) /\ (n = 0 <=> top = 0)

LEMMA TupleIs ==
  ASSUME NEW s \in Tuples
  PROVE  s \in Seq(Values) /\ Len(s) \in 1 .. MaxItems
<1>1. MaxItems \in Nat
  BY StorageAssumption
<1>2. PICK m \in 0 .. MaxItems : s \in [1 .. m -> Values] /\ s # <<>>
  BY DEF Tuples, BoundedSeq, SeqOf
<1>3. s \in Seq(Values) /\ Len(s) = m
  BY <1>1, <1>2
<1>4. m # 0
  BY <1>2, <1>3
<1> QED
  BY <1>1, <1>3, <1>4

LEMMA FirstIsTuple ==
  ASSUME NEW c, NEW s \in Tuples, NEW a \in Nat, Lies(c, s, a)
  PROVE  First(c, a) = s /\ Following(c, a) = a + 1 + Len(s)
<1> DEFINE m == Len(s)
           r == SubSeq(c, a + 2, a + 1 + m)
<1>1. s \in Seq(Values) /\ m \in Nat
  BY TupleIs
<1>2. /\ c[a + 1] = m
      /\ \A j \in 1 .. m : c[a + 2 + m - j] = s[j]
  BY DEF Lies
<1>3. Following(c, a) = a + 1 + m
  BY <1>2 DEF Following
<1>4. \A i \in a + 2 .. a + 1 + m : c[i] \in Values
  <2> TAKE i \in a + 2 .. a + 1 + m
  <2> DEFINE j == a + 2 + m - i
  <2>1. j \in 1 .. m /\ a + 2 + m - j = i
    BY <1>1
  <2>2. s[j] \in Values /\ c[i] = s[j]
    BY <1>1, <1>2, <2>1, ElementOfSeq
  <2> QED
    BY <2>2
<1> HIDE DEF m
<1>5. /\ r \in Seq(Values)
      /\ Len(r) = IF a + 2 <= a + 1 + m THEN (a + 1 + m) - (a + 2) + 1 ELSE 0
      /\ \A i \in 1 .. (a + 1 + m) - (a + 2) + 1 : r[i] = c[(a + 2) + i - 1]
  <2>1. a + 2 \in Int /\ a + 1 + m \in Int
    BY <1>1
  <2> QED
    BY <1>4, <2>1, SubSeqProperties
<1> HIDE DEF r
<1>6. Len(r) = m
  BY <1>1, <1>5
<1>7. \A i \in 1 .. m : r[(m - i) + 1] = s[i]
  <2> TAKE i \in 1 .. m
  <2>1. (m - i) + 1 \in 1 .. (a + 1 + m) - (a + 2) + 1 /\ (a + 2) + ((m - i) + 1) - 1 = a + 2 + m - i
    BY <1>1
  <2>2. r[(m - i) + 1] = c[(a + 2) + ((m - i) + 1) - 1]
    BY <1>5, <2>1
  <2> QED
    BY <1>2, <2>1, <2>2
<1>8. Reverse(r) = [i \in 1 .. m |-> s[i]]
  BY <1>6, <1>7 DEF Reverse
<1>9. s = [i \in 1 .. m |-> s[i]]
  BY <1>1 DEF m
<1>10. First(c, a) = Reverse(r)
  BY <1>3 DEF First, r
<1> QED
  BY <1>3, <1>8, <1>9, <1>10 DEF m

(* Where the tuples of q are laid, the walk finds q. *)
LEMMA LaidIsFound ==
  ASSUME NEW c, NEW a, NEW t \in 0 .. MaxCells, NEW q, NEW p, Laid(c, a, t, q, p)
  PROVE  Walk(c, t)[a] = q
<1> DEFINE T == Tuples
           m == Len(q)
           Finds(j) == Walk(c, t)[p[m - j]] = SubSeq(q, m - j + 1, m)
           bad == {j \in 0 .. m : ~Finds(j)}
<1>1. /\ q \in Seq(T) /\ m \in Nat /\ p \in [0 .. m -> Nat] /\ p[0] = a /\ p[m] = t
      /\ \A j, k \in 0 .. m : j < k => p[j] < p[k]
      /\ \A k \in 1 .. m : q[k] \in T /\ p[k] = p[k - 1] + 1 + Len(q[k]) /\ Lies(c, q[k], p[k - 1])
  BY LenProperties, ElementOfSeq DEF Laid
<1>2. MaxCells \in Nat /\ t \in Nat /\ t <= MaxCells
  BY StorageAssumption
<1> HIDE DEF T
<1>3. Finds(0)
  <2>1. Ends(c, t, t) /\ m - 0 = m /\ t \in 0 .. MaxCells
    BY <1>1, <1>2 DEF Ends
  <2>2. Walk(c, t)[t] = <<>>
    BY <2>1, WalkIs DEF Rest
  <2>3. SubSeq(q, m - 0 + 1, m) = <<>>
    BY <1>1, SubSeqEmpty
  <2> QED
    BY <1>1, <2>1, <2>2, <2>3
<1>4. ASSUME NEW k \in 1 .. m, Finds(m - k) PROVE Finds(m - (k - 1))
  <2> DEFINE i == p[k - 1]
  <2>1. k - 1 \in 0 .. m /\ k \in 0 .. m /\ k - 1 < k /\ m - (m - k) = k /\ m - (m - (k - 1)) = k - 1
        /\ (k - 1) + 1 = k
    BY <1>1
  <2>2. i \in Nat /\ p[k] \in Nat /\ p[k] <= t /\ i < p[k] /\ i < t
    <3>1. k = m \/ p[k] < p[m]
      BY <1>1, <2>1
    <3>2. i \in Nat /\ p[k] \in Nat /\ i < p[k]
      BY <1>1, <2>1
    <3> QED
      BY <1>1, <1>2, <3>1, <3>2
  <2>3. q[k] \in Tuples /\ Lies(c, q[k], i) /\ p[k] = i + 1 + Len(q[k])
    BY <1>1 DEF T
  <2>4. First(c, i) = q[k] /\ Following(c, i) = p[k]
    BY <2>2, <2>3, FirstIsTuple
  <2>5. c[i + 1] = Len(q[k]) /\ Len(q[k]) \in 1 .. MaxItems
    BY <2>3, TupleIs DEF Lies
  <2>6. ~Ends(c, t, i) /\ i \in 0 .. MaxCells
    <3>1. MaxItems \in Nat
      BY StorageAssumption
    <3> HIDE DEF i
    <3>2. i + 1 + c[i + 1] = p[k] /\ c[i + 1] \in 1 .. MaxItems
      BY <2>3, <2>5
    <3> QED
      BY <1>2, <2>2, <3>2 DEF Ends
  <2>7. Walk(c, t)[i] = <<q[k]>> \o Walk(c, t)[p[k]]
    <3>1. Walk(c, t)[i] = Rest(Walk(c, t), c, t, i)
      BY <2>6, WalkIs
    <3> HIDE DEF i
    <3>2. Rest(Walk(c, t), c, t, i) = <<First(c, i)>> \o Walk(c, t)[Following(c, i)]
      BY <2>6 DEF Rest
    <3> QED
      BY <3>1, <3>2, <2>4
  <2>8. Walk(c, t)[p[k]] = SubSeq(q, k + 1, m)
    BY <1>4, <2>1
  <2>9. <<q[k]>> \o SubSeq(q, k + 1, m) = SubSeq(q, k, m)
    <3>1. m \in k .. m
      BY <1>1
    <3> QED
      BY <1>1, <3>1, SubSeqRecursiveFirst
  <2> QED
    BY <2>1, <2>7, <2>8, <2>9
<1> HIDE DEF Finds
<1>5. ASSUME bad # {} PROVE FALSE
  <2>1. bad \in SUBSET Nat
    BY <1>1
  <2>2. PICK j \in bad : \A x \in bad : j <= x
    BY <1>5, <2>1, LeastExists
  <2>3. j # 0 /\ j \in 1 .. m
    BY <1>1, <1>3, <2>2
  <2>4. j - 1 \in 0 .. m /\ j - 1 \notin bad
    BY <1>1, <2>1, <2>2, <2>3
  <2> DEFINE k == m - (j - 1)
  <2>5. k \in 1 .. m /\ m - k = j - 1 /\ m - (k - 1) = j
    BY <1>1, <2>3
  <2>6. Finds(m - k)
    BY <2>4, <2>5
  <2>7. Finds(m - (k - 1))
    BY <1>4, <2>5, <2>6
  <2> QED
    BY <2>2, <2>5, <2>7
<1>6. Finds(m)
  BY <1>1, <1>5
<1>7. m - m = 0 /\ m - m + 1 = 1
  BY <1>1
<1>8. SubSeq(q, 1, m) = q
  BY <1>1
<1> QED
  BY <1>1, <1>6, <1>7, <1>8 DEF Finds

LEMMA LiesAsBefore ==
  ASSUME NEW c, NEW d, NEW s \in Tuples, NEW a \in Nat, Lies(c, s, a),
         \A i \in a + 1 .. a + 1 + Len(s) : d[i] = c[i]
  PROVE  Lies(d, s, a)
<1>1. Len(s) \in Nat
  BY TupleIs
<1>2. a + 1 \in a + 1 .. a + 1 + Len(s)
  BY <1>1
<1>3. \A j \in 1 .. Len(s) : a + 2 + Len(s) - j \in a + 1 .. a + 1 + Len(s)
  BY <1>1
<1> QED
  BY <1>2, <1>3 DEF Lies

LaidSound(c, a, t, q, p) ==
  /\ q \in Seq(Tuples) /\ Len(q) \in Nat /\ a \in Nat /\ t \in Nat
  /\ p \in [0 .. Len(q) -> Nat] /\ p[0] = a /\ p[Len(q)] = t
  /\ \A j, k \in 0 .. Len(q) : j < k => p[j] < p[k]
  /\ \A k \in 1 .. Len(q) : /\ q[k] \in Tuples /\ Len(q[k]) \in 1 .. MaxItems
                            /\ k - 1 \in 0 .. Len(q) /\ k \in 0 .. Len(q)
                            /\ p[k] = p[k - 1] + 1 + Len(q[k]) /\ Lies(c, q[k], p[k - 1])

LEMMA LaidIs ==
  ASSUME NEW c, NEW a, NEW t, NEW q, NEW p, Laid(c, a, t, q, p)
  PROVE  LaidSound(c, a, t, q, p)
<1>1. q \in Seq(Tuples) /\ Len(q) \in Nat
  BY LenProperties DEF Laid
<1>2. \A k \in 1 .. Len(q) : q[k] \in Tuples
  BY <1>1, ElementOfSeq
<1>3. \A k \in 1 .. Len(q) : Len(q[k]) \in 1 .. MaxItems
  BY <1>2, TupleIs
<1>4. \A k \in 1 .. Len(q) : k - 1 \in 0 .. Len(q) /\ k \in 0 .. Len(q)
  BY <1>1
<1>5. p[0] \in Nat /\ p[Len(q)] \in Nat
  <2>1. 0 \in 0 .. Len(q) /\ Len(q) \in 0 .. Len(q)
    BY <1>1
  <2> QED
    BY <2>1 DEF Laid
<1> QED
  BY <1>1, <1>2, <1>3, <1>4, <1>5 DEF Laid, LaidSound

(* A tuple is put behind the others. *)
LEMMA PutLays ==
  ASSUME NEW q, NEW p, Laid(cell, idx, top, q, p), n = Len(q),
         idx \in 0 .. MaxCells, top \in 0 .. MaxCells, NothingLeftBehind,
         NEW s \in Tuples, PutTuple(s)
  PROVE  /\ \E r : Laid(cell', idx', top', Append(q, s), r)
         /\ n' = Len(Append(q, s)) /\ n' # 0 /\ top' # 0
         /\ idx' \in 0 .. MaxCells /\ top' \in 0 .. MaxCells
         /\ NothingLeftBehind'
<1>0. LaidSound(cell, idx, top, q, p)
  BY LaidIs
<1> DEFINE m == Len(q)
           last == top + 1 + Len(s)
           u == Append(q, s)
           r == [k \in 0 .. m + 1 |-> IF k <= m THEN p[k] ELSE last]
           T == Tuples
<1>1. /\ last <= MaxCells /\ top' = last /\ n' = n + 1 /\ idx' = idx
      /\ cell' = [i \in 1 .. MaxCells |-> CASE i = top + 1 -> Len(s)
                                            [] i \in top + 2 .. last -> s[last + 1 - i]
                                            [] OTHER -> cell[i]]
  BY DEF PutTuple, Cells
<1>2. s \in Seq(Values) /\ Len(s) \in Nat /\ Len(s) >= 1 /\ MaxCells \in Nat /\ top \in Nat
      /\ last \in Nat /\ last <= MaxCells
  <2>1. s \in Seq(Values) /\ Len(s) \in 1 .. MaxItems /\ MaxItems \in Nat /\ MaxCells \in Nat
    BY TupleIs, StorageAssumption
  <2> QED
    BY <1>1, <2>1
<1>3. /\ q \in Seq(T) /\ m \in Nat /\ p \in [0 .. m -> Nat] /\ p[0] = idx /\ p[m] = top
      /\ \A j, k \in 0 .. m : j < k => p[j] < p[k]
      /\ \A k \in 1 .. m : /\ q[k] \in T /\ Len(q[k]) \in 1 .. MaxItems
                           /\ k - 1 \in 0 .. m /\ k \in 0 .. m
                           /\ p[k] = p[k - 1] + 1 + Len(q[k]) /\ Lies(cell, q[k], p[k - 1])
  BY <1>0 DEF LaidSound
<1>4. /\ u \in Seq(T) /\ Len(u) = m + 1 /\ u[m + 1] = s
      /\ \A k \in 1 .. m : u[k] = q[k]
  BY <1>3, AppendProperties
<1> HIDE DEF u, T, m
<1>5. \A i \in 1 .. top : cell'[i] = cell[i]
  <2> TAKE i \in 1 .. top
  <2>1. i \in 1 .. MaxCells /\ i # top + 1 /\ i \notin top + 2 .. last
    BY <1>1, <1>2
  <2> HIDE DEF last
  <2>2. cell'[i] = CASE i = top + 1 -> Len(s)
                     [] i \in top + 2 .. last -> s[last + 1 - i]
                     [] OTHER -> cell[i]
    BY <1>1, <2>1
  <2> QED
    BY <2>1, <2>2
<1>6. Lies(cell', s, top)
  <2>1. cell'[top + 1] = Len(s)
    <3>1. top + 1 \in 1 .. MaxCells
      BY <1>1, <1>2
    <3> QED
      BY <1>1, <3>1
  <2>2. ASSUME NEW j \in 1 .. Len(s) PROVE cell'[top + 2 + Len(s) - j] = s[j]
    <3> DEFINE i == top + 2 + Len(s) - j
    <3>1. i \in 1 .. MaxCells /\ i # top + 1 /\ i \in top + 2 .. last /\ last + 1 - i = j
      BY <1>2
    <3> HIDE DEF i, last
    <3>2. cell'[i] = s[last + 1 - i]
      BY <1>1, <3>1
    <3> QED
      BY <3>1, <3>2 DEF i
  <2> QED
    BY <2>1, <2>2 DEF Lies
<1>7. \A k \in 0 .. m : r[k] = p[k] /\ p[k] \in Nat /\ p[k] <= top
  <2> TAKE k \in 0 .. m
  <2>1. k \in 0 .. m + 1 /\ k <= m
    BY <1>3
  <2>2. k = m \/ k < m
    BY <1>3
  <2>3. m \in 0 .. m
    BY <1>3
  <2> QED
    BY <1>2, <1>3, <2>1, <2>2, <2>3
<1>8. r[m + 1] = last /\ r[0] = idx /\ r \in [0 .. m + 1 -> Nat]
  <2>1. m + 1 \in 0 .. m + 1 /\ ~(m + 1 <= m) /\ 0 \in 0 .. m
    BY <1>3
  <2>2. r[m + 1] = last
    BY <2>1
  <2>3. r[0] = idx
    BY <1>3, <1>7, <2>1
  <2>4. \A k \in 0 .. m + 1 : k \in 0 .. m \/ k = m + 1
    BY <1>3
  <2>5. \A k \in 0 .. m + 1 : r[k] \in Nat
    BY <1>2, <1>7, <2>2, <2>4
  <2> QED
    BY <2>2, <2>3, <2>5
<1> HIDE DEF r
<1>9. \A j, k \in 0 .. m + 1 : j < k => r[j] < r[k]
  <2> SUFFICES ASSUME NEW j \in 0 .. m + 1, NEW k \in 0 .. m + 1, j < k PROVE r[j] < r[k]
    OBVIOUS
  <2>1. j \in 0 .. m /\ (k \in 0 .. m \/ k = m + 1)
    BY <1>3
  <2>2. CASE k \in 0 .. m
    BY <1>3, <1>7, <2>1, <2>2
  <2>3. CASE k = m + 1
    BY <1>2, <1>7, <1>8, <2>1, <2>3
  <2> QED
    BY <2>1, <2>2, <2>3
<1>10. ASSUME NEW k \in 1 .. m + 1
       PROVE  r[k] = r[k - 1] + 1 + Len(u[k]) /\ Lies(cell', u[k], r[k - 1])
  <2>1. CASE k \in 1 .. m
    <3>1. r[k] = p[k] /\ r[k - 1] = p[k - 1] /\ u[k] = q[k] /\ p[k] <= top /\ p[k - 1] \in Nat
      BY <1>3, <1>4, <1>7, <2>1
    <3>2. p[k] = p[k - 1] + 1 + Len(q[k]) /\ Lies(cell, q[k], p[k - 1]) /\ Len(q[k]) \in Nat
      <4>1. Len(q[k]) \in 1 .. MaxItems /\ MaxItems \in Nat
        BY <1>3, <2>1, StorageAssumption
      <4> QED
        BY <1>3, <2>1, <4>1
    <3>3. \A i \in p[k - 1] + 1 .. p[k - 1] + 1 + Len(q[k]) : cell'[i] = cell[i]
      <4> TAKE i \in p[k - 1] + 1 .. p[k - 1] + 1 + Len(q[k])
      <4>1. i \in 1 .. top
        <5>1. /\ i \in Int /\ p[k - 1] + 1 <= i /\ i <= p[k] /\ p[k - 1] \in Nat
              /\ p[k] \in Int /\ p[k] <= top /\ top \in Nat
          BY <1>2, <3>1, <3>2
        <5> QED
          BY <5>1
      <4> QED
        BY <1>5, <4>1
    <3>4. Lies(cell', q[k], p[k - 1])
      BY <1>3, <2>1, <3>1, <3>2, <3>3, LiesAsBefore DEF T
    <3> QED
      BY <3>1, <3>2, <3>4
  <2>2. CASE k = m + 1
    <3>1. k - 1 = m /\ m \in 0 .. m
      BY <1>3, <2>2
    <3>2. r[k - 1] = top /\ r[k] = last /\ u[k] = s
      BY <1>3, <1>4, <1>7, <1>8, <2>2, <3>1
    <3> QED
      BY <1>6, <3>2
  <2>3. k \in 1 .. m \/ k = m + 1
    BY <1>3
  <2> QED
    BY <2>1, <2>2, <2>3
<1>11. Laid(cell', idx', top', u, r)
  BY <1>1, <1>4, <1>8, <1>9, <1>10 DEF Laid, T
<1>12. n' = Len(u) /\ n' # 0 /\ top' # 0 /\ idx' \in 0 .. MaxCells /\ top' \in 0 .. MaxCells
  BY <1>1, <1>2, <1>3, <1>4 DEF m
<1>13. NothingLeftBehind'
  <2> SUFFICES ASSUME NEW i \in 1 .. MaxCells, i \notin idx + 1 .. last PROVE cell'[i] = Nil
    BY <1>1 DEF NothingLeftBehind, Cells
  <2>1. idx <= top /\ idx \in Nat
    BY <1>3, <1>7
  <2>2. i # top + 1 /\ i \notin top + 2 .. last /\ i \notin idx + 1 .. top
    BY <1>2, <2>1
  <2>3. cell'[i] = cell[i]
    BY <1>1, <2>2
  <2> QED
    BY <2>2, <2>3 DEF NothingLeftBehind, Cells
<1> QED
  BY <1>11, <1>12, <1>13 DEF u

(* The tuple in front is taken. *)
LEMMA GetLays ==
  ASSUME NEW q, NEW p, Laid(cell, idx, top, q, p), n = Len(q),
         idx \in 0 .. MaxCells, top \in 0 .. MaxCells, NothingLeftBehind,
         GetTuple
  PROVE  /\ q # <<>> /\ got' = Head(q)
         /\ \E r : Laid(cell', idx', top', Tail(q), r)
         /\ n' = Len(Tail(q)) /\ (n' = 0 <=> top' = 0)
         /\ idx' \in 0 .. MaxCells /\ top' \in 0 .. MaxCells
         /\ NothingLeftBehind'
<1>0. LaidSound(cell, idx, top, q, p)
  BY LaidIs
<1> DEFINE m == Len(q)
           last == Following(cell, idx)
           s == q[1]
           u == Tail(q)
           T == Tuples
<1>1. /\ n > 0 /\ n' = n - 1
      /\ got' = [k \in 1 .. cell[idx + 1] |-> cell[last + 1 - k]]
      /\ cell' = [i \in 1 .. MaxCells |-> IF i \in idx + 1 .. last THEN Nil ELSE cell[i]]
      /\ IF last = top THEN idx' = 0 /\ top' = 0 ELSE idx' = last /\ top' = top
  BY DEF GetTuple, Cells, Following
<1>2. MaxCells \in Nat /\ MaxItems \in Nat /\ idx \in Nat /\ top \in Nat /\ top <= MaxCells
  BY StorageAssumption
<1>3. /\ q \in Seq(T) /\ m \in Nat /\ p \in [0 .. m -> Nat] /\ p[0] = idx /\ p[m] = top
      /\ \A j, k \in 0 .. m : j < k => p[j] < p[k]
      /\ \A k \in 1 .. m : /\ q[k] \in T /\ Len(q[k]) \in 1 .. MaxItems
                           /\ k - 1 \in 0 .. m /\ k \in 0 .. m
                           /\ p[k] = p[k - 1] + 1 + Len(q[k]) /\ Lies(cell, q[k], p[k - 1])
  BY <1>0 DEF LaidSound
<1>4. q # <<>> /\ m >= 1 /\ 1 \in 1 .. m
  <2>1. m >= 1
    BY <1>1, <1>3
  <2> QED
    BY <1>3, <2>1
<1>5. /\ Head(q) = s /\ u \in Seq(T) /\ Len(u) = m - 1
      /\ \A k \in 1 .. m - 1 : u[k] = q[k + 1]
  BY <1>3, <1>4, HeadTailProperties
<1>6. s \in T /\ Len(s) \in 1 .. MaxItems /\ p[1] = idx + 1 + Len(s) /\ Lies(cell, s, idx)
  <2>1. 1 - 1 = 0
    OBVIOUS
  <2>2. /\ q[1] \in T /\ Len(q[1]) \in 1 .. MaxItems
        /\ p[1] = p[1 - 1] + 1 + Len(q[1]) /\ Lies(cell, q[1], p[1 - 1])
    BY <1>3, <1>4
  <2> QED
    BY <1>3, <2>1, <2>2
<1>7. last = p[1] /\ cell[idx + 1] = Len(s)
  <2>1. Following(cell, idx) = idx + 1 + Len(s)
    <3>1. idx \in Nat /\ s \in Tuples /\ Lies(cell, s, idx)
      BY <1>2, <1>6
    <3> HIDE DEF s
    <3> QED
      BY <3>1, FirstIsTuple
  <2> QED
    BY <1>6, <2>1 DEF Lies
<1> HIDE DEF u, s, T, m, last
<1>8. got' = s
  <2>1. s \in Seq(Values) /\ Len(s) \in Nat
    BY <1>2, <1>6, TupleIs DEF T
  <2>2. \A k \in 1 .. Len(s) : cell[idx + 2 + Len(s) - k] = s[k]
    BY <1>6 DEF Lies
  <2>3. \A k \in 1 .. Len(s) : last + 1 - k = idx + 2 + Len(s) - k
    BY <1>2, <1>6, <1>7, <2>1
  <2>4. got' = [k \in 1 .. Len(s) |-> s[k]]
    BY <1>1, <1>7, <2>2, <2>3
  <2> QED
    BY <2>1, <2>4
<1>9. last \in Nat /\ idx < last /\ last <= top /\ (last = top <=> m = 1)
  <2>1. 0 \in 0 .. m /\ 1 \in 0 .. m /\ m \in 0 .. m
    BY <1>3, <1>4
  <2>2. m = 1 \/ 1 < m
    BY <1>3, <1>4
  <2>3. p[0] < p[1] /\ (m = 1 \/ p[1] < p[m]) /\ p[1] \in Nat
    BY <1>3, <2>1, <2>2
  <2> QED
    BY <1>2, <1>3, <1>7, <2>3
<1>10. n' = Len(u) /\ Len(u) = m - 1
  BY <1>1, <1>3, <1>5 DEF m
<1>11. \A i \in last + 1 .. top : cell'[i] = cell[i]
  <2> TAKE i \in last + 1 .. top
  <2>1. i \in 1 .. MaxCells /\ i \notin idx + 1 .. last
    BY <1>2, <1>9
  <2> QED
    BY <1>1, <2>1
<1>12. NothingLeftBehind'
  <2> SUFFICES ASSUME NEW i \in 1 .. MaxCells, i \notin idx' + 1 .. top' PROVE cell'[i] = Nil
    BY DEF NothingLeftBehind, Cells
  <2>1. i \in idx + 1 .. last \/ i \notin idx + 1 .. top
    <3>1. CASE last = top
      BY <3>1
    <3>2. CASE last # top
      <4>1. i \notin last + 1 .. top
        BY <1>1, <3>2
      <4> QED
        BY <1>2, <1>9, <4>1
    <3> QED
      BY <3>1, <3>2
  <2>2. i \notin idx + 1 .. top => cell[i] = Nil
    BY DEF NothingLeftBehind, Cells
  <2> QED
    BY <1>1, <2>1, <2>2
<1>13. CASE last = top
  <2> DEFINE r == [k \in 0 .. 0 |-> 0]
  <2>1. idx' = 0 /\ top' = 0 /\ m = 1
    BY <1>1, <1>9, <1>13
  <2>2. u = <<>> /\ Len(u) = 0
    BY <1>5, <2>1
  <2>3. r \in [0 .. 0 -> Nat] /\ r[0] = 0 /\ \A j, k \in 0 .. 0 : ~(j < k)
    OBVIOUS
  <2> HIDE DEF r
  <2>4. 1 .. 0 = {}
    OBVIOUS
  <2>5. Laid(cell', idx', top', u, r)
    BY <1>5, <2>1, <2>2, <2>3, <2>4 DEF Laid, T
  <2>6. n' = 0
    BY <1>10, <2>2
  <2>7. \E x : Laid(cell', idx', top', u, x)
    BY <2>5
  <2>8. 0 \in 0 .. MaxCells
    BY <1>2
  <2> QED
    BY <1>4, <1>5, <1>8, <1>10, <1>12, <2>1, <2>6, <2>7, <2>8 DEF u
<1>14. CASE last # top
  <2> DEFINE r == [k \in 0 .. m - 1 |-> p[k + 1]]
  <2>1. idx' = last /\ top' = top /\ m - 1 \in Nat /\ m - 1 # 0 /\ m - 1 \in 0 .. m - 1 /\ 0 \in 0 .. m - 1
        /\ (m - 1) + 1 = m
    BY <1>1, <1>3, <1>4, <1>9, <1>14
  <2>2. \A k \in 0 .. m - 1 : k + 1 \in 0 .. m /\ r[k] = p[k + 1] /\ r[k] \in Nat
    <3> TAKE k \in 0 .. m - 1
    <3>1. k + 1 \in 0 .. m
      BY <1>3
    <3> QED
      BY <1>3, <3>1
  <2>3. r \in [0 .. m - 1 -> Nat]
    BY <2>2
  <2> HIDE DEF r
  <2>4. r[0] = last /\ r[m - 1] = top
    <3>1. 0 + 1 = 1
      OBVIOUS
    <3> QED
      BY <1>3, <1>7, <2>1, <2>2, <3>1
  <2>5. \A j, k \in 0 .. m - 1 : j < k => r[j] < r[k]
    <3> SUFFICES ASSUME NEW j \in 0 .. m - 1, NEW k \in 0 .. m - 1, j < k PROVE r[j] < r[k]
      OBVIOUS
    <3>1. j + 1 \in 0 .. m /\ k + 1 \in 0 .. m /\ j + 1 < k + 1
      BY <2>2
    <3>2. p[j + 1] < p[k + 1]
      BY <1>3, <3>1
    <3> QED
      BY <2>2, <3>2
  <2>6. ASSUME NEW k \in 1 .. m - 1
        PROVE  r[k] = r[k - 1] + 1 + Len(u[k]) /\ Lies(cell', u[k], r[k - 1])
    <3>1. k \in 0 .. m - 1 /\ k - 1 \in 0 .. m - 1 /\ k + 1 \in 1 .. m /\ (k - 1) + 1 = k /\ (k + 1) - 1 = k
          /\ k \in 0 .. m /\ 1 \in 0 .. m /\ (k = 1 \/ 1 < k)
      BY <1>3, <1>4, <2>1
    <3>2. r[k] = p[k + 1] /\ r[k - 1] = p[k] /\ u[k] = q[k + 1]
      BY <1>5, <2>2, <3>1
    <3>3. /\ q[k + 1] \in T /\ Len(q[k + 1]) \in 1 .. MaxItems
          /\ p[k + 1] = p[k] + 1 + Len(q[k + 1]) /\ Lies(cell, q[k + 1], p[k])
      BY <1>3, <3>1
    <3>4. p[k] \in Nat /\ p[k] >= last
      <4>1. p[k] \in Nat /\ (k = 1 \/ p[1] < p[k])
        BY <1>3, <3>1
      <4> QED
        BY <1>7, <1>9, <4>1
    <3>5. p[k + 1] <= top /\ p[k + 1] \in Nat
      <4>1. k + 1 = m \/ k + 1 < m
        BY <1>3, <3>1
      <4>2. k + 1 \in 0 .. m /\ m \in 0 .. m
        BY <1>3, <3>1
      <4>3. p[k + 1] \in Nat /\ (k + 1 = m \/ p[k + 1] < p[m])
        BY <1>3, <4>1, <4>2
      <4> QED
        BY <1>2, <1>3, <4>3
    <3>6. \A i \in p[k] + 1 .. p[k] + 1 + Len(q[k + 1]) : cell'[i] = cell[i]
      <4> TAKE i \in p[k] + 1 .. p[k] + 1 + Len(q[k + 1])
      <4>1. i \in last + 1 .. top
        BY <1>2, <1>9, <3>3, <3>4, <3>5
      <4> QED
        BY <1>11, <4>1
    <3>7. Lies(cell', q[k + 1], p[k])
      BY <3>3, <3>4, <3>6, LiesAsBefore DEF T
    <3> QED
      BY <3>2, <3>3, <3>7
  <2>7. Laid(cell', idx', top', u, r)
    BY <1>5, <2>1, <2>3, <2>4, <2>5, <2>6 DEF Laid, T
  <2>8. \E x : Laid(cell', idx', top', u, x)
    BY <2>7
  <2>9. last \in 0 .. MaxCells /\ top' # 0 /\ n' # 0
    BY <1>2, <1>9, <1>10, <2>1
  <2> QED
    BY <1>4, <1>5, <1>8, <1>10, <1>12, <2>1, <2>8, <2>9 DEF u
<1> QED
  BY <1>13, <1>14

LEMMA StorageFinds ==
  ASSUME NEW q, NEW p, top \in 0 .. MaxCells, Laid(cell, idx, top, q, p)
  PROVE  TuplesFrom[idx] = q
BY LaidIsFound, TuplesFromIs

LEMMA StorageFindsNext ==
  ASSUME NEW q, NEW p, top' \in 0 .. MaxCells, Laid(cell', idx', top', q, p)
  PROVE  TuplesFrom[idx]' = q
<1>1. TuplesFrom' = Walk(cell, top)'
  BY DEF TuplesFrom, Walk, Rest, Ends, First, Following
<1>2. Walk(cell', top')[idx'] = q
  BY LaidIsFound
<1> QED
  BY <1>1, <1>2

LEMMA StorageBegins ==
  ASSUME StorageInit
  PROVE  Laid(cell, idx, top, <<>>, [k \in 0 .. 0 |-> 0]) /\ StorageSound
<1> DEFINE r == [k \in 0 .. 0 |-> 0]
<1>1. idx = 0 /\ top = 0 /\ n = 0 /\ MaxCells \in Nat /\ cell = [i \in 1 .. MaxCells |-> Nil]
  BY StorageAssumption DEF StorageInit, Cells
<1>2. r \in [0 .. 0 -> Nat] /\ r[0] = 0 /\ \A j, k \in 0 .. 0 : ~(j < k)
  OBVIOUS
<1>3. <<>> \in Seq(Tuples) /\ Len(<<>>) = 0 /\ 1 .. 0 = {}
  OBVIOUS
<1> HIDE DEF r
<1>4. Laid(cell, idx, top, <<>>, r)
  BY <1>1, <1>2, <1>3 DEF Laid
<1>5. NothingLeftBehind
  BY <1>1 DEF NothingLeftBehind, Cells
<1>6. \E q, p : Laid(cell, idx, top, q, p) /\ n = Len(q) /\ (n = 0 <=> top = 0)
  BY <1>1, <1>3, <1>4
<1> QED
  BY <1>1, <1>4, <1>5, <1>6 DEF StorageSound, r

LEMMA StorageGoesOn ==
  ASSUME StorageSound, [StorageNext]_(storageVars)
  PROVE  StorageSound'
<1>1. PICK q, p : Laid(cell, idx, top, q, p) /\ n = Len(q) /\ (n = 0 <=> top = 0)
  BY DEF StorageSound
<1>2. idx \in 0 .. MaxCells /\ top \in 0 .. MaxCells /\ NothingLeftBehind
  BY DEF StorageSound
<1>3. CASE GetTuple
  <2>1. PICK r : Laid(cell', idx', top', Tail(q), r)
    BY <1>1, <1>2, <1>3, GetLays
  <2>2. n' = Len(Tail(q)) /\ (n' = 0 <=> top' = 0)
        /\ idx' \in 0 .. MaxCells /\ top' \in 0 .. MaxCells /\ NothingLeftBehind'
    BY <1>1, <1>2, <1>3, GetLays
  <2> QED
    BY <2>1, <2>2 DEF StorageSound
<1>4. ASSUME NEW s \in Tuples, PutTuple(s) PROVE StorageSound'
  <2>1. PICK r : Laid(cell', idx', top', Append(q, s), r)
    BY <1>1, <1>2, <1>4, PutLays
  <2>2. n' = Len(Append(q, s)) /\ (n' = 0 <=> top' = 0)
        /\ idx' \in 0 .. MaxCells /\ top' \in 0 .. MaxCells /\ NothingLeftBehind'
    BY <1>1, <1>2, <1>4, PutLays
  <2> QED
    BY <2>1, <2>2 DEF StorageSound
<1>5. CASE UNCHANGED storageVars
  <2>1. cell' = cell /\ idx' = idx /\ top' = top /\ n' = n
    BY <1>5 DEF storageVars
  <2>2. NothingLeftBehind'
    BY <1>2, <2>1 DEF NothingLeftBehind, Cells
  <2> QED
    BY <1>1, <1>2, <2>1, <2>2 DEF StorageSound
<1> QED
  BY <1>3, <1>4, <1>5 DEF StorageNext

LEMMA StorageKeeps == StorageSpec => []StorageSound
<1>1. StorageInit => StorageSound
  BY StorageBegins
<1>2. StorageSound /\ [StorageNext]_(storageVars) => StorageSound'
  BY StorageGoesOn
<1> QED
  BY <1>1, <1>2, PTL DEF StorageSpec

(* dp->n is the number of tuples that lie between the indexes, which are reset    *)
(* when there is none (thread_dpool.c).                                           *)
THEOREM StorageCountsTuples == StorageSpec => []CountsTuples
<1>1. StorageSound => CountsTuples
  BY StorageFinds DEF StorageSound, CountsTuples
<1> QED
  BY <1>1, StorageKeeps, PTL

(* No cell outside of the indexes holds a value.                                  *)
THEOREM StorageKeepsNothing == StorageSpec => []NothingLeftBehind
<1>1. StorageSound => NothingLeftBehind
  BY DEF StorageSound
<1> QED
  BY <1>1, StorageKeeps, PTL

LEMMA StorageQueues ==
  ASSUME StorageSound, [StorageNext]_(storageVars)
  PROVE  [Queue!Next]_(Queue!vars)
<1>1. PICK q, p : Laid(cell, idx, top, q, p) /\ n = Len(q) /\ (n = 0 <=> top = 0)
  BY DEF StorageSound
<1>2. idx \in 0 .. MaxCells /\ top \in 0 .. MaxCells /\ NothingLeftBehind
  BY DEF StorageSound
<1>3. TuplesFrom[idx] = q
  BY <1>1, <1>2, StorageFinds
<1>4. CASE GetTuple
  <2>1. PICK r : Laid(cell', idx', top', Tail(q), r)
    BY <1>1, <1>2, <1>4, GetLays
  <2>2. q # <<>> /\ got' = Head(q) /\ top' \in 0 .. MaxCells
    BY <1>1, <1>2, <1>4, GetLays
  <2>3. TuplesFrom[idx]' = Tail(q)
    BY <2>1, <2>2, StorageFindsNext
  <2>4. given' = given
    BY <1>4 DEF GetTuple
  <2>5. Queue!Get
    BY <1>3, <2>2, <2>3, <2>4 DEF Queue!Get
  <2> QED
    BY <2>5 DEF Queue!Next
<1>5. ASSUME NEW s \in Tuples, PutTuple(s) PROVE Queue!Next
  <2>1. PICK r : Laid(cell', idx', top', Append(q, s), r)
    BY <1>1, <1>2, <1>5, PutLays
  <2>2. top' \in 0 .. MaxCells
    BY <1>1, <1>2, <1>5, PutLays
  <2>3. TuplesFrom[idx]' = Append(q, s)
    BY <2>1, <2>2, StorageFindsNext
  <2>4. given' = s /\ got' = got
    BY <1>5 DEF PutTuple
  <2>5. Queue!Put(s)
    BY <1>3, <2>3, <2>4 DEF Queue!Put
  <2> QED
    BY <2>5 DEF Queue!Next
<1>6. CASE UNCHANGED storageVars
  <2>1. cell' = cell /\ idx' = idx /\ top' = top /\ given' = given /\ got' = got
    BY <1>6 DEF storageVars
  <2>2. Laid(cell', idx', top', q, p) /\ top' \in 0 .. MaxCells
    BY <1>1, <1>2, <2>1
  <2>3. TuplesFrom[idx]' = q
    BY <2>2, StorageFindsNext
  <2> QED
    BY <1>3, <2>1, <2>3 DEF Queue!vars
<1> QED
  BY <1>4, <1>5, <1>6 DEF StorageNext

(* The table of a pool is a first-in first-out queue of tuples, whatever their    *)
(* lengths and wherever in the table they come to lie.                            *)
THEOREM StorageIsQueue == StorageSpec => ImplementsTupleQueue
<1>1. StorageInit => Queue!Init
  <2> SUFFICES ASSUME StorageInit PROVE Queue!Init
    OBVIOUS
  <2>1. Laid(cell, idx, top, <<>>, [k \in 0 .. 0 |-> 0]) /\ top \in 0 .. MaxCells
    BY StorageBegins DEF StorageSound
  <2>2. TuplesFrom[idx] = <<>>
    BY <2>1, StorageFinds
  <2> QED
    BY <2>2 DEF StorageInit, Queue!Init
<1>2. StorageSound /\ [StorageNext]_(storageVars) => [Queue!Next]_(Queue!vars)
  BY StorageQueues
<1> QED
  BY <1>1, <1>2, StorageKeeps, PTL DEF StorageSpec, ImplementsTupleQueue, Queue!Spec
=============================================================================
