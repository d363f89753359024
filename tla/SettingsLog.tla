----------------------------- MODULE SettingsLog -----------------------------
(***************************************************************************)
(* What the settings log of the STC board promises (devices.c,             *)
(* persistence): a restart loses at most the saves begun since the last  *)
(* one that was completed, as long as fewer than Slots of them were begun. *)
(* Beyond that every slot has been started over and nothing is promised.   *)
(***************************************************************************)
EXTENDS Naturals

CONSTANT Slots

VARIABLES
    begun,    \* saves begun since the last completed one, or since the start
    lag       \* how many saves a restart at this moment would lose

log == <<begun, lag>>

LogTypeOK == begun \in Nat /\ lag \in Nat

LogInit == begun = 0 /\ lag = 0

\* A save is begun; it may supersede one that is still being written.  The numbers of
\* the saves are finite: how far behind a record is counts only while one is promised.
Begin ==
    /\ begun' = begun + 1
    /\ lag' \in Nat
    /\ begun < Slots => lag' = lag + 1

\* A byte is written, and with it the save may already count.  Once every slot
\* was started over, it may also fall on the last save there was.
Write ==
    /\ lag' \in Nat
    /\ begun < Slots => lag' \in {0, lag}
    /\ UNCHANGED begun

Complete == begun' = 0 /\ lag' = 0

\* After a restart the board goes on from what it found.
Restart == begun' = 0 /\ lag' = 0

LogNext == Begin \/ Write \/ Complete \/ Restart

LogSpec == LogInit /\ [][LogNext]_log

\* The promise: no completed save is lost before Slots others were begun.
KeepsCompleted == begun < Slots => lag <= begun
=============================================================================
