---------------------------- MODULE MCVmMessages ----------------------------
(* Two VMs: main runs in the first, two workers in the second. *)
EXTENDS VmMessages, TLC
CONSTANTS main, w1, w2, v1, v2, m1, m2
Home == main :> v1 @@ w1 :> v2 @@ w2 :> v2
TwoHomes == main :> v1 @@ w1 :> v2
WatchedBySender == v1 :> NoVm @@ v2 :> v1
WatchedByOwner == v1 :> NoVm @@ v2 :> v2
FromEach == v1 :> {main} @@ v2 :> Threads \ {main}
ToSecond == v1 :> {} @@ v2 :> {main}
FromSecond == v1 :> {} @@ v2 :> Threads \ {main}
MsgSymmetry == Permutations(Msgs)
=============================================================================
