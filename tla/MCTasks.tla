-------------------------------- MODULE MCTasks --------------------------------
(* The scheduler with three places for Task objects and five processes, so that
   an object's address is used again after its task has exited. *)
EXTENDS Tasks
===============================================================================
