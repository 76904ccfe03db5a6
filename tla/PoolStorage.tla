---------------------------- MODULE PoolStorage ----------------------------
(* How a data pool keeps tuples of any length in one Lua table (the storage    *)
(* parts of dpool_put and dpool_get, luasys-MOD/src/thread/thread_dpool.c): a  *)
(* tuple is a count followed by its values, last one first, and the table is   *)
(* used again from its start when it has run empty.  DataPool takes from here  *)
(* that the table is a queue of items.                                         *)
EXTENDS Naturals, Sequences, SequencesExt

CONSTANTS Values, Nil,
          MaxItems,   \* the most values in a tuple
          MaxCells    \* bound: the cells of the table

ASSUME StorageAssumption == Nil \notin Values /\ MaxItems \in Nat \ {0} /\ MaxCells \in Nat

VARIABLES cell,        \* the table
          idx, top, n, \* dp->idx, dp->top, dp->n
          given, got   \* the tuples of the last put and the last get

storageVars == <<cell, idx, top, n, given, got>>

Tuples == BoundedSeq(Values, MaxItems) \ {<<>>}
Cells == 1..MaxCells

StorageInit == /\ cell = [i \in Cells |-> Nil]
        /\ idx = 0 /\ top = 0 /\ n = 0
        /\ given = <<>> /\ got = <<>>

\* As it would be if the values were stored first one first.
PutInOrder(s) ==
  LET last == top + 1 + Len(s)
  IN  /\ last <= MaxCells
      /\ given' = s
      /\ cell' = [i \in Cells |-> CASE i = top + 1 -> Len(s)
                                    [] i \in top + 2 .. last -> s[i - top - 1]
                                    [] OTHER -> cell[i]]
      /\ top' = last
      /\ n' = n + 1
      /\ UNCHANGED <<idx, got>>

\* "Keep data in the storage"
PutTuple(s) ==
  LET last == top + 1 + Len(s)
  IN  /\ last <= MaxCells
      /\ given' = s
      /\ cell' = [i \in Cells |-> CASE i = top + 1 -> Len(s)
                                    [] i \in top + 2 .. last -> s[last + 1 - i]
                                    [] OTHER -> cell[i]]
      /\ top' = last
      /\ n' = n + 1
      /\ UNCHANGED <<idx, got>>

\* As it would be if the count stayed in the table.
GetLeavingCount ==
  LET last == idx + 1 + cell[idx + 1]
  IN  /\ n > 0
      /\ got' = [k \in 1..cell[idx + 1] |-> cell[last + 1 - k]]
      /\ cell' = [i \in Cells |-> IF i \in idx + 2 .. last THEN Nil ELSE cell[i]]
      /\ IF last = top THEN idx' = 0 /\ top' = 0 ELSE idx' = last /\ UNCHANGED top
      /\ n' = n - 1
      /\ UNCHANGED given

\* As it would be without the reset of both indexes.
GetGoingOn ==
  LET last == idx + 1 + cell[idx + 1]
  IN  /\ n > 0
      /\ got' = [k \in 1..cell[idx + 1] |-> cell[last + 1 - k]]
      /\ cell' = [i \in Cells |-> IF i \in idx + 1 .. last THEN Nil ELSE cell[i]]
      /\ idx' = last /\ UNCHANGED top
      /\ n' = n - 1
      /\ UNCHANGED given

\* "get from storage"
GetTuple ==
  LET last == idx + 1 + cell[idx + 1]
  IN  /\ n > 0
      /\ got' = [k \in 1..cell[idx + 1] |-> cell[last + 1 - k]]
      /\ cell' = [i \in Cells |-> IF i \in idx + 1 .. last THEN Nil ELSE cell[i]]
      /\ IF last = top THEN idx' = 0 /\ top' = 0 ELSE idx' = last /\ UNCHANGED top
      /\ n' = n - 1
      /\ UNCHANGED given

StorageNext == GetTuple \/ \E s \in Tuples : PutTuple(s)
StorageSpec == StorageInit /\ [][StorageNext]_storageVars

-----------------------------------------------------------------------------

\* The tuples found in the table from cell i on.
TuplesFrom[i \in 0..MaxCells] ==
  IF i >= top \/ cell[i + 1] \notin 1..MaxItems \/ i + 1 + cell[i + 1] > top THEN <<>>
  ELSE LET last == i + 1 + cell[i + 1]
       IN  <<Reverse(SubSeq(cell, i + 2, last))>> \o TuplesFrom[last]

\* The table is a queue of tuples, whatever their lengths and wherever in the
\* table they come to lie.
Queue == INSTANCE TupleQueue WITH queue <- TuplesFrom[idx]
ImplementsTupleQueue == Queue!Spec

\* dp->n, "count of data in storage", is the number of tuples found between the
\* indexes; and the indexes start again when there is none.
CountsTuples == n = Len(TuplesFrom[idx]) /\ (n = 0 <=> top = 0)

\* What was taken is not kept from the collector by the table.
NothingLeftBehind == \A i \in Cells : i \notin idx + 1 .. top => cell[i] = Nil
=============================================================================
