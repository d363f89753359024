------------------------- MODULE MCObstacleGeometry -------------------------
(* One remote in front of a box, with another box or none to the right of it. *)
EXTENDS ObstacleGeometry

At(x, y) == [x |-> x, y |-> y]
MCScans == {{At(280, 0)} \union others : others \in {{}, {At(0, -300)}, {At(500, -400)}}}
=============================================================================
