-------------------------- MODULE MCExecutorThreads --------------------------
(* A small instance of ExecutorThreads: a free room, and a box ahead. *)
EXTENDS ExecutorThreads

Seen(forward) ==
    [clear |-> [d \in Directions |-> IF d = "forward" THEN forward ELSE Wide],
     spin_blocked |-> forward <= Stop]

MCViews == {Seen(Wide), Seen(Stop)}
=============================================================================
