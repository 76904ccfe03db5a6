----------------------------- MODULE Dispatcher -----------------------------
(* What an event queue promises: an event is called only while the program has *)
(* it registered, only after it became ready, and once each time it did.       *)
EXTENDS FiniteSets

CONSTANT Events
VARIABLES status,   \* "absent", "idle" or "ready"
          calling   \* the event whose callback runs, as a set of at most one

vars == <<status, calling>>

Init == status = [e \in Events |-> "absent"] /\ calling = {}

Become(S, s) == status' = [e \in Events |-> IF e \in S THEN s ELSE status[e]]
With(s) == {e \in Events : status[e] = s}

Add(e) == status[e] = "absent" /\ Become({e}, "idle") /\ UNCHANGED calling

\* The program deletes an event, ready or not, or an object takes its events away.
Remove(S) == Become(S, "absent") /\ UNCHANGED calling

GetReady(S) == S \subseteq With("idle") /\ Become(S, "ready") /\ UNCHANGED calling

Call(e) == /\ calling = {} /\ status[e] = "ready"
           /\ calling' = {e} /\ Become({e}, "idle")

\* A callback returns; an event for one shot is gone then.
Return(S) == calling # {} /\ calling' = {} /\ S \subseteq calling /\ Become(S, "absent")

\* A callback fails, and what was ready besides is not called.
Fail(S) == calling # {} /\ calling' = {} /\ Become(S \cap With("ready"), "idle")

Next == \/ \E e \in Events : Add(e) \/ Call(e)
        \/ \E S \in SUBSET Events : Remove(S) \/ GetReady(S) \/ Return(S) \/ Fail(S)
Spec == Init /\ [][Next]_vars
=============================================================================
