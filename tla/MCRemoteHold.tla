---------------------------- MODULE MCRemoteHold ----------------------------
(* A small instance of RemoteHold for TLC. *)
EXTENDS RemoteHold

Seen(forward, left) ==
    [clear |-> [forward |-> forward, backward |-> Wide, left |-> left, right |-> Near],
     spin_blocked |-> forward <= Stop]

MCViews == {Seen(Wide, Wide), Seen(Stop, Wide)}
=============================================================================
