----------------------------- MODULE MCFrameLink -----------------------------
(* Two frames without a payload, one with a byte, and one whose payload looks *)
(* like a header.  Their type, taken for a length, is the longest payload.     *)
EXTENDS FrameLink

Frame(number, payload, check) ==
    <<AA, V55, 2, 3, number, Len(payload)>> \o payload \o <<check, check + 1>>

MCFrames ==
    { Frame(1, <<>>, 11), Frame(2, <<>>, 21), Frame(3, <<9>>, 31), Frame(4, <<AA, V55>>, 41) }

\* The bytes of a header, a length that fits and one that does not.
MCNoise == {AA, V55, 3, 200}

\* What the theorem that no frame is lost asks of the frames is true of these.
ASSUME FramesAreApart == Apart
=============================================================================
