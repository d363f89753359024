------------------------------ MODULE MCUartTx ------------------------------
(* A small instance of UartTx for TLC: both ports, rings of three slots, and  *)
(* frames of one byte, of two, and of one more than a slot holds.            *)
EXTENDS UartTx

CONSTANTS stop, resume, telemetry, word, long

BothStops == {stop, resume}
PortFrames == {stop, resume, telemetry, word, long}
PortLength == [f \in PortFrames |-> IF f \in BothStops THEN 2 ELSE IF f = long THEN FrameMax + 1 ELSE 1]
PortTraffic == [p \in Ports |-> IF p = 1 THEN {stop, resume, telemetry, long} ELSE {word}]
=============================================================================
