--------------------------- MODULE MCSettingsStore ---------------------------
(* EEPROMs to start from: a new one, one whose sequence numbers and counts are *)
(* about to wrap, and one written by the firmware before this one.             *)
EXTENDS SettingsStore

MCStarts ==
    { [version |-> 0, sequence |-> 0, feed_count |-> 0],
      [version |-> 2, sequence |-> 65533, feed_count |-> 253],
      [version |-> 1, sequence |-> 6, feed_count |-> 65533] }
=============================================================================
