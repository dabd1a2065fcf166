---------------------------- MODULE MCVirtualMemory ----------------------------
(* Address spaces are interchangeable. *)
EXTENDS VirtualMemory, TLC

SpaceSymmetry == Permutations(Spaces)
===============================================================================
