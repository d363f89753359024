-------------------------- MODULE MCEmergencyLatch --------------------------
(* The scenarios TLC goes through.  *)
EXTENDS EmergencyLatch

\* K3 and a board that reboots; everything that loses a message; the web page
\* and K3 in turns.
MCScenarios ==
    { [may |-> {"reboot"}, events |-> 4],
      [may |-> {"cancel", "unplug", "reboot", "restart"}, events |-> 3],
      [may |-> {"web", "reboot"}, events |-> 3] }

\* The voice ends a motion right after the stop was pressed.
CancelScenario == { [may |-> {"cancel"}, events |-> 2] }
=============================================================================
