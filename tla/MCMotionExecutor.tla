-------------------------- MODULE MCMotionExecutor --------------------------
(* A small instance of MotionExecutor for TLC. *)
EXTENDS MotionExecutor

Around(forward, backward, left, right) ==
    [forward |-> forward, backward |-> backward, left |-> left, right |-> right]
Seen(clear) == [clear |-> clear, spin_blocked |-> \E d \in Directions : clear[d] <= Stop]

\* Free; a box ahead with a free side on the left; touching ahead; too tight to
\* turn, with walls behind and on the left.
MCViews == { Seen(Around(Wide, Wide, Wide, Wide)),
             Seen(Around(Stop, Wide, Wide, Near)),
             Seen(Around(Emergency, Wide, Near, Wide)),
             Seen(Around(Near, Stop, Stop, Near)) }

Ask(id, kind, direction, source) ==
    [id |-> id, kind |-> kind, direction |-> direction, source |-> source]

MCRequests ==
    UNION { { Ask(i, "linear", "forward", "voice"), Ask(i, "linear", "backward", "bright_light"),
              Ask(i, "rotate", NoDirection, "voice"), Ask(i, "other", NoDirection, "voice") }
            : i \in Ids }
=============================================================================
