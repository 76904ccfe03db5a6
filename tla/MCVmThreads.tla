---------------------------- MODULE MCVmThreads ----------------------------
(* The main thread and two or three more. *)
EXTENDS VmThreads, TLC
CONSTANTS main, w1, w2, w3
WorkerSymmetry == Permutations(Interruptible)
=============================================================================
