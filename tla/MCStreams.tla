-------------------------------- MODULE MCStreams --------------------------------
(* Descriptors are interchangeable, and so are bytes.  The last transfer is only
   written, never read: a run that checks no property of it looks at the rest of
   the state. *)
EXTENDS Streams, TLC

StreamView == <<fd, allocated, nextPid, alive, std, attached, room, lost, known>>

StreamSymmetry == Permutations(Fd) \cup Permutations(Data)
===============================================================================
