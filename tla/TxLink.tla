------------------------------- MODULE TxLink -------------------------------
(***************************************************************************)
(* What a transmit port of the STC board promises to those who write to    *)
(* it: whole frames, first in first out, at most Capacity of them waiting  *)
(* behind the one on the line, and one reserved place for a STOP frame,    *)
(* which withdraws everything that has not started.                        *)
(***************************************************************************)
EXTENDS Naturals, Sequences

CONSTANTS Frames, Length, Capacity, None

VARIABLES
    waiting,   \* accepted frames that have not started
    urgent,    \* the STOP frame that goes next, or None
    line       \* the byte the port was last given: <<frame, index>>, or None

linkVars == <<waiting, urgent, line>>

LinkInit == waiting = <<>> /\ urgent = None /\ line = None

Accept(f) ==
    /\ Len(waiting) < Capacity
    /\ waiting' = Append(waiting, f)
    /\ UNCHANGED <<urgent, line>>

\* A STOP frame takes the place of an earlier one that still waits.
AcceptUrgent(f) ==
    /\ waiting' = <<>>
    /\ urgent' = f
    /\ UNCHANGED line

MidFrame == line # None /\ line[2] < Length[line[1]]

Continue ==
    /\ MidFrame
    /\ line' = <<line[1], line[2] + 1>>
    /\ UNCHANGED <<waiting, urgent>>

StartUrgent ==
    /\ ~MidFrame /\ urgent # None
    /\ line' = <<urgent, 1>>
    /\ urgent' = None
    /\ UNCHANGED waiting

StartWaiting ==
    /\ ~MidFrame /\ urgent = None /\ waiting # <<>>
    /\ line' = <<Head(waiting), 1>>
    /\ waiting' = Tail(waiting)
    /\ UNCHANGED urgent

LinkNext ==
    \/ \E f \in Frames : Accept(f) \/ AcceptUrgent(f)
    \/ Continue \/ StartUrgent \/ StartWaiting

LinkSpec == LinkInit /\ [][LinkNext]_linkVars
=============================================================================
