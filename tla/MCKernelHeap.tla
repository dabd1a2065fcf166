----------------------------- MODULE MCKernelHeap -----------------------------
(* A heap of 12 bytes in pages of 4, at most three blocks. *)
EXTENDS KernelHeap
===============================================================================
