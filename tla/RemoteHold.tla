----------------------------- MODULE RemoteHold -----------------------------
(***************************************************************************)
(* How often a held key may make the robot leave its path.  An observer of *)
(* MotionExecutor counts the detours begun for jogs of one key since that  *)
(* key was last released or another one pressed.                           *)
(***************************************************************************)
EXTENDS MotionExecutor

VARIABLE hold   \* history: the key held down and the detours it has caused

holdVars == <<vars, hold>>

NoHold == [key |-> None, detours |-> 0]

HoldInit == Init /\ hold = NoHold

Message(source, direction) ==
    \E lease \in 1..MaxLease :
        OnJogRenew(source, direction, lease) \/ OnJogStart(source, direction, lease)

DetourBegins == avoidance = None /\ avoidance' # None /\ avoidance'.owner = "jog"

HoldNext ==
    \/ OnJogRelease /\ hold' = NoHold
    \/ \E source \in JogSources, direction \in Directions :
          /\ Message(source, direction)
          /\ hold' = IF hold.key = <<source, direction>> THEN hold
                     ELSE [key |-> <<source, direction>>, detours |-> 0]
    \/ /\ OtherStep
       /\ hold' = IF DetourBegins THEN [hold EXCEPT !.detours = @ + 1] ELSE hold

HoldSpec == HoldInit /\ [][HoldNext]_holdVars

\* docs/lidar_avoidance.md: each time a remote key is held, at most one detour.
\* The allowance lives in the jog; a scan that fails for a moment ends the jog,
\* and the next message of the held key starts another, allowance included.
OneDetourPerHold == hold.detours <= 1
=============================================================================
