----------------------------- MODULE MCKernelHeap -----------------------------
(***************************************************************************)
(* Instances of KernelHeap: its processes are alike.                       *)
(***************************************************************************)
EXTENDS KernelHeap, TLC

Symmetry == Permutations(Process)
=============================================================================
