---------------------------- MODULE MCBookkeeping ----------------------------
(***************************************************************************)
(* Bookkeeping for TLC: the kernel's space is two ranges, as the one with   *)
(* the page tables lies between them; the second is the smaller.            *)
(***************************************************************************)
EXTENDS Bookkeeping

SomeRanges == {[begin |-> 0, size |-> 15], [begin |-> 16, size |-> 4]}
=============================================================================
