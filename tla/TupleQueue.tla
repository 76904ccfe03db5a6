----------------------------- MODULE TupleQueue -----------------------------
(* A first-in first-out queue of tuples. *)
EXTENDS Sequences

CONSTANT Tuples
VARIABLES queue,  \* the tuples kept, oldest first
          given,  \* the tuple put last
          got     \* the tuple taken last

vars == <<queue, given, got>>

Init == queue = <<>> /\ given = <<>> /\ got = <<>>

Put(s) == /\ given' = s
          /\ queue' = Append(queue, s)
          /\ UNCHANGED got

Get == /\ queue # <<>>
       /\ got' = Head(queue)
       /\ queue' = Tail(queue)
       /\ UNCHANGED given

Next == Get \/ \E s \in Tuples : Put(s)
Spec == Init /\ [][Next]_vars
=============================================================================
