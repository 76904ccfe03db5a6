------------------------------ MODULE ItemPool ------------------------------
(* What a data pool promises, whatever the threads, locks and wake-ups that    *)
(* carry it out: a put offers its item until it is accepted behind the items   *)
(* already accepted, or taken by a reader straight from the offer.  A put      *)
(* gives up its item only while it has an excuse.  No item is taken twice,     *)
(* none is made up, and an accepted item leaves only by being taken.  Accepted *)
(* items are taken in their order; an offer may be taken before all of them.   *)
EXTENDS Sequences, Functions

CONSTANTS Threads,  \* the threads that use the pool
          Items,    \* the data items (each a tuple of Lua values)
          NoItem    \* "nothing": what a reader that got no data holds

VARIABLES offer,    \* the item each thread offers: that of its put under way
          excused,  \* input: the threads whose put may be given up now
          accepted, \* the items the pool keeps, oldest first
          result    \* what the last get of each thread brought it

vars == <<offer, excused, accepted, result>>

Init == /\ offer = [t \in Threads |-> NoItem]
        /\ excused = {}
        /\ accepted = <<>>
        /\ result = [t \in Threads |-> NoItem]

Inside == Range(offer) \cup Range(accepted)

\* A put comes with an item that is nowhere in the pool.
Comes(t, i) == offer[t] = NoItem /\ i \notin Inside

Offer(t, i) == /\ Comes(t, i)
               /\ offer' = [offer EXCEPT ![t] = i]
               /\ UNCHANGED <<accepted, result>>

\* A put that is not held up comes with its item and sees it accepted in one step.
Accept(t, i) == /\ offer[t] = i \/ Comes(t, i)
                /\ offer' = [offer EXCEPT ![t] = NoItem]
                /\ accepted' = Append(accepted, i)
                /\ UNCHANGED result

Withdraw(t) == /\ t \in excused
               /\ offer' = [offer EXCEPT ![t] = NoItem]
               /\ UNCHANGED <<accepted, result>>

\* Reader t takes what writer u offers.
TakeOffered(t, u) == /\ offer[u] # NoItem
                     /\ offer' = [offer EXCEPT ![u] = NoItem]
                     /\ result' = [result EXCEPT ![t] = offer[u]]
                     /\ UNCHANGED accepted

TakeOldest(t) == /\ accepted # <<>>
                 /\ result' = [result EXCEPT ![t] = Head(accepted)]
                 /\ accepted' = Tail(accepted)
                 /\ UNCHANGED offer

\* A get that timed out, or that the on-empty callback answered.
TakeNothing(t) == /\ result' = [result EXCEPT ![t] = NoItem]
                  /\ UNCHANGED <<offer, accepted>>

Next == /\ excused' \subseteq Threads
        /\ \/ \E t \in Threads, i \in Items : Offer(t, i) \/ Accept(t, i)
           \/ \E t \in Threads : Withdraw(t) \/ TakeOldest(t) \/ TakeNothing(t)
           \/ \E t, u \in Threads : TakeOffered(t, u)
           \/ UNCHANGED <<offer, accepted, result>>

Spec == Init /\ [][Next]_vars
=============================================================================
