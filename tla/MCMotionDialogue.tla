--------------------------- MODULE MCMotionDialogue ---------------------------
(* Each disturbance with everything a user does; the two that make a behaviour *)
(* long, fewer times.                                                          *)
EXTENDS MotionDialogue

MCScenarios ==
    { [may |-> {}, events |-> 4], [may |-> {"crowd"}, events |-> 3],
      [may |-> {"unplug"}, events |-> 4], [may |-> {"noise"}, events |-> 3],
      [may |-> {"reboot"}, events |-> 3], [may |-> {"overtake"}, events |-> 3] }
=============================================================================
